---- MODULE Spec2Model ----
(***************************************************************************)
(* whatsapp-analyzer: the export parser (parser.py) and the statistics     *)
(* engine (analysis.py) as state machines.                                 *)
(*                                                                         *)
(* A Python str is a sequence of characters; a character is a one-letter   *)
(* TLA+ string, except the byte-order mark U+FEFF, which is written BOM.   *)
(* Optional values use a sentinel of the value's own type: NoneTime for a  *)
(* missing datetime, NoneSender for a missing sender.                      *)
(***************************************************************************)
EXTENDS Integers, Sequences, FiniteSets, TLC

VARIABLES
    raw_text,               \* parse_exported_text: its argument
    lines,                  \* raw_text.splitlines(), the list the loop walks
    idx,                    \* position of the for loop in raw_text.splitlines()
    messages,               \* List[Message] built so far
    participants,           \* Set[str]
    current_timestamp,
    current_sender,
    current_is_system,
    current_content_lines,
    pc,                     \* "loop" | "returned" | "raised"
    result,                 \* the Conversation returned, NoneConversation before
    conversation,           \* compute_statistics: its argument
    reports,                \* the reports of the runs of compute_statistics so far
    runs,                   \* the reports of repeated runs on one Conversation, in order
    lexicon_edits           \* the changes made to the module-level lexicons since import

parserVars ==
    <<raw_text, lines, idx, messages, participants, current_timestamp,
      current_sender, current_is_system, current_content_lines, pc, result>>

statsVars == <<conversation, reports, runs, lexicon_edits>>

vars == <<parserVars, statsVars>>

----------------------------------------------------------------------------
(* Bounds of the model.                                                    *)

\* the longest input, in physical lines
MaxLines == 3

\* the longest message list handed to compute_statistics
MaxMsgs == 4

\* the most runs of compute_statistics on one Conversation
MaxRuns == 3

----------------------------------------------------------------------------
(* Characters and strings.                                                 *)

BOM == "BOM"

Digits == <<"0", "1", "2", "3", "4", "5", "6", "7", "8", "9">>

IsDigit(c) == \E i \in 1..10 : Digits[i] = c

DigitVal(c) == (CHOOSE i \in 1..10 : Digits[i] = c) - 1

\* str.strip() / str.rstrip() without argument remove whitespace
IsSpace(c) == c \in {" ", "\t", "\n", "\r"}

\* ord(c), for the characters of the model's inputs
Ord(c) ==
    CASE c = "\t" -> 9
      [] c = "\n" -> 10
      [] c = " " -> 32
      [] c = "'" -> 39
      [] c = "," -> 44
      [] c = "-" -> 45
      [] c = "/" -> 47
      [] IsDigit(c) -> 48 + DigitVal(c)
      [] c = ":" -> 58
      [] c = "A" -> 65
      [] c = "B" -> 66
      [] c = "C" -> 67
      [] c = "a" -> 97
      [] c = "b" -> 98
      [] c = "e" -> 101
      [] c = "i" -> 105
      [] c = "m" -> 109
      [] c = "o" -> 111
      [] c = "p" -> 112
      [] c = "r" -> 114
      [] c = "u" -> 117
      [] c = "w" -> 119
      [] c = "x" -> 120
      [] c = "y" -> 121
      [] c = "z" -> 122
      [] c = BOM -> 65279
      [] OTHER -> 63

RECURSIVE RStrip(_)
RStrip(s) ==
    IF s # <<>> /\ IsSpace(s[Len(s)]) THEN RStrip(SubSeq(s, 1, Len(s) - 1)) ELSE s

RECURSIVE LStrip(_)
LStrip(s) ==
    IF s # <<>> /\ IsSpace(s[1]) THEN LStrip(Tail(s)) ELSE s

Strip(s) == LStrip(RStrip(s))

\* raw_line.rstrip(BOM): removes the marks at the END of the line, not the start
RECURSIVE RStripBOM(_)
RStripBOM(s) ==
    IF s # <<>> /\ s[Len(s)] = BOM THEN RStripBOM(SubSeq(s, 1, Len(s) - 1)) ELSE s

\* sep.join(parts)
RECURSIVE Join(_, _)
Join(parts, sep) ==
    IF parts = <<>> THEN <<>>
    ELSE IF Len(parts) = 1 THEN parts[1]
    ELSE parts[1] \o sep \o Join(Tail(parts), sep)

\* str.splitlines() for "\n": a final line break opens no further line
RECURSIVE SplitLinesFrom(_, _)
SplitLinesFrom(s, cur) ==
    IF s = <<>> THEN (IF cur = <<>> THEN <<>> ELSE <<cur>>)
    ELSE IF s[1] = "\n" THEN <<cur>> \o SplitLinesFrom(Tail(s), <<>>)
    ELSE SplitLinesFrom(Tail(s), Append(cur, s[1]))

SplitLines(s) == SplitLinesFrom(s, <<>>)

\* str < str: lexicographic by code point, a proper prefix first
RECURSIVE StrLess(_, _)
StrLess(a, b) ==
    IF b = <<>> THEN FALSE
    ELSE IF a = <<>> THEN TRUE
    ELSE IF a[1] = b[1] THEN StrLess(Tail(a), Tail(b))
    ELSE Ord(a[1]) < Ord(b[1])

\* sorted(set of str)
RECURSIVE Sorted(_)
Sorted(S) ==
    IF S = {} THEN <<>>
    ELSE LET least == CHOOSE x \in S : \A y \in S \ {x} : StrLess(x, y)
         IN  <<least>> \o Sorted(S \ {least})

----------------------------------------------------------------------------
(* parser.py: the two patterns and the timestamp.                          *)

\* number of consecutive digits of s from position i on
RECURSIVE DigitRun(_, _)
DigitRun(s, i) ==
    IF i <= Len(s) /\ IsDigit(s[i]) THEN 1 + DigitRun(s, i + 1) ELSE 0

\* number of consecutive characters of [ ,] from position i on
RECURSIVE SepRun(_, _)
SepRun(s, i) ==
    IF i <= Len(s) /\ s[i] \in {" ", ","} THEN 1 + SepRun(s, i + 1) ELSE 0

NoMatch == [ok |-> FALSE, date |-> <<>>, time |-> <<>>, rest |-> <<>>]

\* LINE_PATTERN.match(line):
\*   ^(\d{1,2}/\d{1,2}/\d{2,4})[ ,]+(\d{2}:\d{2}) - (.+)$
LineMatch(line) ==
    LET d  == DigitRun(line, 1)
        m  == DigitRun(line, d + 2)
        y  == DigitRun(line, d + m + 3)
        sp == d + m + 3 + y
        sn == SepRun(line, sp)
        t  == sp + sn
    IN  IF /\ d \in 1..2 /\ Len(line) >= d + 1 /\ line[d + 1] = "/"
           /\ m \in 1..2 /\ Len(line) >= d + m + 2 /\ line[d + m + 2] = "/"
           /\ y \in 2..4
           /\ sn >= 1
           /\ DigitRun(line, t) >= 2
           /\ Len(line) >= t + 8
           /\ line[t + 2] = ":"
           /\ IsDigit(line[t + 3]) /\ IsDigit(line[t + 4])
           /\ SubSeq(line, t + 5, t + 7) = <<" ", "-", " ">>
           /\ \A k \in (t + 8)..Len(line) : line[k] # "\n"
        THEN [ok |-> TRUE, date |-> SubSeq(line, 1, sp - 1),
              time |-> SubSeq(line, t, t + 4),
              rest |-> SubSeq(line, t + 8, Len(line))]
        ELSE NoMatch

NoSender == [ok |-> FALSE, sender |-> <<>>, message |-> <<>>]


\* a greedy sender group: ^(.+): (.*)$ splits at the LAST ": "
SenderMatchLastColon(rest) ==
    IF \E k \in 1..Len(rest) : Len(rest) >= k + 2 /\ rest[k + 1] = ":" /\ rest[k + 2] = " "
    THEN LET S == {k \in 1..Len(rest) :
                      Len(rest) >= k + 2 /\ rest[k + 1] = ":" /\ rest[k + 2] = " "}
             k == CHOOSE k \in S : \A j \in S : j <= k
         IN  [ok |-> TRUE, sender |-> SubSeq(rest, 1, k),
              message |-> SubSeq(rest, k + 3, Len(rest))]
    ELSE [ok |-> FALSE, sender |-> <<>>, message |-> <<>>]

\* a pattern whose blank after the colon is optional: ^([^:]+): ?(.*)$
SenderMatchOptionalSpace(rest) ==
    IF \E k \in 1..Len(rest) : (\A j \in 1..k : rest[j] # ":") /\ Len(rest) >= k + 1
                                  /\ rest[k + 1] = ":"
    THEN LET k == CHOOSE k \in 1..Len(rest) :
                     (\A j \in 1..k : rest[j] # ":") /\ Len(rest) >= k + 1 /\ rest[k + 1] = ":"
             m == IF Len(rest) >= k + 2 /\ rest[k + 2] = " " THEN k + 3 ELSE k + 2
         IN  [ok |-> TRUE, sender |-> SubSeq(rest, 1, k), message |-> SubSeq(rest, m, Len(rest))]
    ELSE NoSender

\* SENDER_PATTERN.match(rest):  ^([^:]+): (.*)$
\* the sender group is a non-empty colon-free prefix followed by ": "
SenderMatch(rest) ==
    IF \E k \in 1..Len(rest) :
           /\ \A j \in 1..k : rest[j] # ":"
           /\ Len(rest) >= k + 2 /\ rest[k + 1] = ":" /\ rest[k + 2] = " "
    THEN LET k == CHOOSE k \in 1..Len(rest) :
                     /\ \A j \in 1..k : rest[j] # ":"
                     /\ Len(rest) >= k + 2 /\ rest[k + 1] = ":" /\ rest[k + 2] = " "
         IN  [ok |-> TRUE, sender |-> SubSeq(rest, 1, k),
              message |-> SubSeq(rest, k + 3, Len(rest))]
    ELSE NoSender

\* int(digits)
RECURSIVE ToInt(_)
ToInt(s) ==
    IF s = <<>> THEN 0 ELSE 10 * ToInt(SubSeq(s, 1, Len(s) - 1)) + DigitVal(s[Len(s)])

IsLeap(y) == (y % 4 = 0 /\ y % 100 # 0) \/ y % 400 = 0

DaysInMonth(y, m) ==
    IF m = 2 THEN (IF IsLeap(y) THEN 29 ELSE 28)
    ELSE IF m \in {4, 6, 9, 11} THEN 30 ELSE 31

NoneTime == [year |-> 0, month |-> 0, day |-> 0, hour |-> 0, minute |-> 0]

\* datetime.strptime(text, "%d/%m/%Y %H:%M") for yearDigits = 4 and
\* datetime.strptime(text, "%d/%m/%y %H:%M") for yearDigits = 2, on the date
\* and time groups of LINE_PATTERN; NoneTime stands for ValueError
Strptime(date_str, time_str, yearDigits) ==
    LET d   == DigitRun(date_str, 1)
        m   == DigitRun(date_str, d + 2)
        ys  == SubSeq(date_str, d + m + 3, Len(date_str))
        dd  == ToInt(SubSeq(date_str, 1, d))
        mm  == ToInt(SubSeq(date_str, d + 2, d + m + 1))
        yy  == ToInt(ys)
        yr  == IF yearDigits = 4 THEN yy
               ELSE IF yy <= 68 THEN 2000 + yy ELSE 1900 + yy
        hh  == ToInt(SubSeq(time_str, 1, 2))
        mi  == ToInt(SubSeq(time_str, 4, 5))
    IN  IF /\ Len(ys) = yearDigits
           /\ mm \in 1..12
           /\ yr >= 1
           /\ dd \in 1..DaysInMonth(yr, mm)
           /\ hh \in 0..23
           /\ mi \in 0..59
        THEN [year |-> yr, month |-> mm, day |-> dd, hour |-> hh, minute |-> mi]
        ELSE NoneTime

\* _parse_timestamp: DATE_FORMATS in order, NoneTime when both raise
ParseTimestamp(date_str, time_str) ==
    IF Strptime(date_str, time_str, 4) # NoneTime
    THEN Strptime(date_str, time_str, 4)
    ELSE Strptime(date_str, time_str, 2)

----------------------------------------------------------------------------
(* parser.py: parse_exported_text as a loop over the lines.                *)

NoneSender == <<"None">>

NoneConversation == [participants |-> <<>>, messages |-> <<>>, returned |-> FALSE]

\* line = raw_line.rstrip(BOM), for the line the loop is at
Line == RStripBOM(lines[idx])


\* a join that forgets the per-line rstrip()
MessageContentNoRStrip(content_lines) ==
    Strip(Join(content_lines, <<"\n">>))

\* "\n".join(line.rstrip() for line in current_content_lines).strip()
MessageContent(content_lines) ==
    Strip(Join([i \in 1..Len(content_lines) |-> RStrip(content_lines[i])], <<"\n">>))


\* t1 < t2 on datetimes
TimeLess(t1, t2) ==
    LET k1 == <<t1.year, t1.month, t1.day, t1.hour, t1.minute>>
        k2 == <<t2.year, t2.month, t2.day, t2.hour, t2.minute>>
    IN  \E i \in 1..5 : k1[i] < k2[i] /\ \A j \in 1..(i - 1) : k1[j] = k2[j]

\* a flush that keeps the messages in chronological order
FlushCurrentChronological ==
    IF current_timestamp = NoneTime THEN messages
    ELSE LET m == [timestamp |-> current_timestamp,
                   sender    |-> IF current_is_system THEN NoneSender ELSE current_sender,
                   content   |-> Strip(Join([i \in 1..Len(current_content_lines) |->
                                     RStrip(current_content_lines[i])], <<"\n">>)),
                   is_system |-> current_is_system]
             n == Cardinality({i \in 1..Len(messages) :
                                  ~TimeLess(m.timestamp, messages[i].timestamp)})
         IN  SubSeq(messages, 1, n) \o <<m>> \o SubSeq(messages, n + 1, Len(messages))

\* flush_current: the messages after it
FlushCurrent ==
    IF current_timestamp = NoneTime THEN messages
    ELSE Append(messages,
                [timestamp |-> current_timestamp,
                 sender    |-> IF current_is_system THEN NoneSender ELSE current_sender,
                 content   |-> MessageContent(current_content_lines),
                 is_system |-> current_is_system])

\* flush_current: the accumulator after it (None, None, False, [])
ResetCurrent ==
    /\ current_timestamp' = NoneTime
    /\ current_sender' = NoneSender
    /\ current_is_system' = FALSE
    /\ current_content_lines' = <<>>


\* sorted(participants, reverse=True)
RECURSIVE Reversed(_)
Reversed(q) == IF q = <<>> THEN <<>> ELSE Append(Reversed(Tail(q)), q[1])

OrderedParticipantsReversed(parts) == Reversed(Sorted(parts))

\* sorted(participants)
OrderedParticipants(parts) == Sorted(parts)

AtLine == pc = "loop" /\ idx <= Len(lines)

\* a blank line that is appended whether or not a message is pending
BlankLineAlways ==
    /\ AtLine
    /\ Line = <<>>
    /\ current_content_lines' = Append(current_content_lines, <<>>)
    /\ idx' = idx + 1
    /\ UNCHANGED <<raw_text, lines, messages, participants, current_timestamp,
                   current_sender, current_is_system, pc, result, statsVars>>

\* if not line: append "" to a pending message, continue
BlankLine ==
    /\ AtLine
    /\ Line = <<>>
    /\ current_content_lines' =
           IF current_content_lines # <<>> THEN Append(current_content_lines, <<>>)
           ELSE current_content_lines
    /\ idx' = idx + 1
    /\ UNCHANGED <<raw_text, lines, messages, participants, current_timestamp,
                   current_sender, current_is_system, pc, result, statsVars>>

\* a header line whose timestamp parses: flush, then start the next message
HeaderLine ==
    /\ AtLine
    /\ Line # <<>>
    /\ LineMatch(Line).ok
    /\ LET header_match == LineMatch(Line)
           timestamp    == ParseTimestamp(header_match.date, header_match.time)
           rest         == Strip(header_match.rest)
           sender_match == SenderMatch(rest)
       IN  /\ timestamp # NoneTime
           /\ messages' = FlushCurrent
           /\ current_timestamp' = timestamp
           /\ IF sender_match.ok
              THEN /\ participants' = participants \cup {Strip(sender_match.sender)}
                   /\ current_sender' = Strip(sender_match.sender)
                   /\ current_is_system' = FALSE
                   /\ current_content_lines' = <<Strip(sender_match.message)>>
              ELSE /\ participants' = participants
                   /\ current_sender' = NoneSender
                   /\ current_is_system' = TRUE
                   /\ current_content_lines' = <<rest>>
    /\ idx' = idx + 1
    /\ UNCHANGED <<raw_text, lines, pc, result, statsVars>>


\* a header line with an unparseable date skipped instead of raising
HeaderLineSkipped ==
    /\ AtLine
    /\ Line # <<>>
    /\ LineMatch(Line).ok
    /\ ParseTimestamp(LineMatch(Line).date, LineMatch(Line).time) = NoneTime
    /\ idx' = idx + 1
    /\ UNCHANGED <<raw_text, lines, messages, participants, current_timestamp,
                   current_sender, current_is_system, current_content_lines, pc,
                   result, statsVars>>

\* a header line whose date/time neither format parses: flush_current has run,
\* then _parse_timestamp raises ValueError out of parse_exported_text
HeaderLineRaises ==
    /\ AtLine
    /\ Line # <<>>
    /\ LineMatch(Line).ok
    /\ ParseTimestamp(LineMatch(Line).date, LineMatch(Line).time) = NoneTime
    /\ messages' = FlushCurrent
    /\ ResetCurrent
    /\ pc' = "raised"
    /\ UNCHANGED <<raw_text, lines, idx, participants, result, statsVars>>

\* a non-header line with no message pending: ignored
OrphanLine ==
    /\ AtLine
    /\ Line # <<>>
    /\ ~LineMatch(Line).ok
    /\ current_timestamp = NoneTime
    /\ idx' = idx + 1
    /\ UNCHANGED <<raw_text, lines, messages, participants, current_timestamp, current_sender,
                   current_is_system, current_content_lines, pc, result, statsVars>>

\* a non-header line while a message is pending: current_content_lines.append(line)
ContinuationLine ==
    /\ AtLine
    /\ Line # <<>>
    /\ ~LineMatch(Line).ok
    /\ current_timestamp # NoneTime
    /\ current_content_lines' = Append(current_content_lines, Line)
    /\ idx' = idx + 1
    /\ UNCHANGED <<raw_text, lines, messages, participants, current_timestamp, current_sender,
                   current_is_system, pc, result, statsVars>>

\* after the loop: flush_current, sort the participants, return the Conversation
Return ==
    /\ pc = "loop"
    /\ idx > Len(lines)
    /\ messages' = FlushCurrent
    /\ ResetCurrent
    /\ result' = [participants |-> OrderedParticipants(participants),
                  messages |-> FlushCurrent, returned |-> TRUE]
    /\ pc' = "returned"
    /\ UNCHANGED <<raw_text, lines, idx, participants, statsVars>>

----------------------------------------------------------------------------
(* The inputs of the parser.                                               *)

Header4 == <<"1", "/", "2", "/", "2", "0", "2", "3", ",", " ", "1", "0", ":", "0", "0", " ", "-", " ">>

Header2 == <<"1", "/", "2", "/", "2", "3", " ", "0", "9", ":", "0", "5", " ", "-", " ">>

HeaderBad == <<"3", "1", "/", "2", "/", "2", "0", "2", "3", ",", " ", "1", "0", ":", "0", "0", " ", "-", " ">>

\* the lines an input is made of: headers with a participant, with a colon in
\* the body, with blanks around the sender, without a sender, with an
\* unparseable date; a blank line; lines that are no header
InputLines ==
    { Header4 \o <<"B", ":", " ", "y">>,
      Header2 \o <<"A", "b", ":", " ", "x", ":", " ", "z">>,
      Header4 \o <<"A", " ", ":", " ", "x">>,
      Header4 \o <<" ", ":", " ", "x">>,
      Header2 \o <<"A", ":", "x">>,
      Header4 \o <<"u", "p">>,
      Header4 \o <<" ", " ">>,
      HeaderBad \o <<"A", ":", " ", "x">>,
      <<>>,
      <<" ", "z", " ">>,
      <<"w">> }

LineSeqs == UNION { [1..n -> InputLines] : n \in 0..MaxLines }

\* the text: the lines joined by line breaks, with or without a leading BOM
InputTexts ==
    { (IF bom THEN <<BOM>> ELSE <<>>) \o Join(ls, <<"\n">>) :
          bom \in BOOLEAN, ls \in LineSeqs }

EmptyConversation == [participants |-> <<>>, messages |-> <<>>]

Init ==
    /\ raw_text \in InputTexts
    /\ lines = SplitLines(raw_text)
    /\ idx = 1
    /\ messages = <<>>
    /\ participants = {}
    /\ current_timestamp = NoneTime
    /\ current_sender = NoneSender
    /\ current_is_system = FALSE
    /\ current_content_lines = <<>>
    /\ pc = "loop"
    /\ result = NoneConversation
    /\ conversation = EmptyConversation
    /\ reports = {}
    /\ runs = <<>>
    /\ lexicon_edits = {}

Next ==
    \/ BlankLine
    \/ HeaderLine
    \/ HeaderLineRaises
    \/ OrphanLine
    \/ ContinuationLine
    \/ Return

Spec == Init /\ [][Next]_vars

----------------------------------------------------------------------------
(* Inputs with blank lines inside and outside a message block.             *)

\* the longest input of blank-line blocks, in physical lines
MaxBlockLines == 4

BlockLines ==
    { Header4 \o <<"B", ":", " ", "y">>,
      HeaderBad \o <<"A", ":", " ", "x">>,
      <<>>,
      <<" ", "z", " ">>,
      <<"w">> }

BlockTexts ==
    { Join(ls, <<"\n">>) : ls \in UNION { [1..n -> BlockLines] : n \in 0..MaxBlockLines } }

BlockInit ==
    /\ raw_text \in BlockTexts
    /\ lines = SplitLines(raw_text)
    /\ idx = 1
    /\ messages = <<>>
    /\ participants = {}
    /\ current_timestamp = NoneTime
    /\ current_sender = NoneSender
    /\ current_is_system = FALSE
    /\ current_content_lines = <<>>
    /\ pc = "loop"
    /\ result = NoneConversation
    /\ conversation = EmptyConversation
    /\ reports = {}
    /\ runs = <<>>
    /\ lexicon_edits = {}

BlockSpec == BlockInit /\ [][Next]_vars

----------------------------------------------------------------------------
(* Inputs whose header text is a name and a colon, with and without text   *)
(* after the colon.                                                        *)

\* the longest input of sender headers, in physical lines
MaxSenderLines == 3

SenderLines ==
    { Header4 \o <<"A", ":", " ">>,
      Header4 \o <<"A", ":">>,
      Header4 \o <<"A", ":", "\t", " ">>,
      Header4 \o <<" ", "A", " ", ":", " ", "x", " ">>,
      Header4 \o <<"A", ":", " ", ":">>,
      Header4 \o <<" ", " ">>,
      HeaderBad \o <<"A", ":", " ", "x">>,
      <<"w">>,
      <<>> }

SenderTexts ==
    { Join(ls, <<"\n">>) : ls \in UNION { [1..n -> SenderLines] : n \in 0..MaxSenderLines } }

SenderInit ==
    /\ raw_text \in SenderTexts
    /\ lines = SplitLines(raw_text)
    /\ idx = 1
    /\ messages = <<>>
    /\ participants = {}
    /\ current_timestamp = NoneTime
    /\ current_sender = NoneSender
    /\ current_is_system = FALSE
    /\ current_content_lines = <<>>
    /\ pc = "loop"
    /\ result = NoneConversation
    /\ conversation = EmptyConversation
    /\ reports = {}
    /\ runs = <<>>
    /\ lexicon_edits = {}

SenderSpec == SenderInit /\ [][Next]_vars

----------------------------------------------------------------------------
(* The parser's claims.  They are stated over the physical lines of the    *)
(* input and the Conversation returned.                                    *)

\* the positions of the lines that match the header grammar
HeaderLines == {i \in 1..Len(lines) : LineMatch(lines[i]).ok}

\* the position of the k-th header line
KthHeader(k) == CHOOSE i \in HeaderLines : Cardinality({j \in HeaderLines : j <= i}) = k

\* the position of the first header line after line i, or one past the end
BlockEnd(i) ==
    IF \E j \in HeaderLines : j > i
    THEN CHOOSE j \in HeaderLines : j > i /\ \A h \in HeaderLines : h > i => j <= h
    ELSE Len(lines) + 1

HeaderTime(i) == ParseTimestamp(LineMatch(lines[i]).date, LineMatch(lines[i]).time)

\* position of the first colon of t, 0 when t has none
FirstColon(t) ==
    IF \E c \in 1..Len(t) : t[c] = ":"
    THEN CHOOSE c \in 1..Len(t) : t[c] = ":" /\ \A j \in 1..(c - 1) : t[j] # ":"
    ELSE 0

\* t has the shape <sender-text>: <message-text>, split at its first colon
HasSenderShape(t) ==
    FirstColon(t) > 1 /\ Len(t) > FirstColon(t) /\ t[FirstColon(t) + 1] = " "

SenderText(t) == SubSeq(t, 1, FirstColon(t) - 1)

MessageText(t) == SubSeq(t, FirstColon(t) + 2, Len(t))

\* the content of a message seeded with seed and continued by the lines after
\* header line i up to the next header, a blank line counting as an empty line
ContentFrom(seed, i) ==
    LET block == SubSeq(lines, i + 1, BlockEnd(i) - 1)
        parts == <<seed>> \o block
    IN  Strip(Join([n \in 1..Len(parts) |-> RStrip(parts[n])], <<"\n">>))

\* C1: when every header line has a parseable date/time, the Conversation holds
\* exactly one Message per header line, the k-th message carrying the timestamp
\* of the k-th header line: no other line adds or removes one, none is re-sorted
C1_OneMessagePerHeader ==
    pc = "returned" =>
        /\ Len(result.messages) = Cardinality(HeaderLines)
        /\ \A k \in 1..Cardinality(HeaderLines) :
               result.messages[k].timestamp = HeaderTime(KthHeader(k))

\* two headers out of chronological order with a non-header line in the input
C1_Witness ==
    /\ pc = "returned"
    /\ Len(result.messages) = 2
    /\ TimeLess(result.messages[2].timestamp, result.messages[1].timestamp)
    /\ Len(lines) = 3

\* C2: a header line followed by N non-blank non-header lines yields one Message
\* whose content is the header's message text and the N lines, newline-joined in
\* input order, each line right-stripped and the whole stripped
C2_ContinuationAccumulation ==
    pc = "returned" =>
        \A k \in 1..Cardinality(HeaderLines) :
            LET i     == KthHeader(k)
                block == SubSeq(lines, i + 1, BlockEnd(i) - 1)
                rest  == Strip(LineMatch(lines[i]).rest)
                text  == IF HasSenderShape(rest) THEN MessageText(rest) ELSE rest
                parts == <<text>> \o block
            IN  (\A n \in 1..Len(block) : block[n] # <<>>) =>
                    /\ Len(result.messages) >= k
                    /\ result.messages[k].content =
                           Strip(Join([n \in 1..Len(parts) |-> RStrip(parts[n])], <<"\n">>))

\* a message with two continuation lines, the first with blanks around it
C2_Witness ==
    /\ pc = "returned"
    /\ Len(result.messages) = 1
    /\ result.messages[1].content = <<"y", "\n", " ", "z", "\n", "w">>

\* C3 as stated: classification on the first colon of the text after " - "
\* as it stands in the line, the sender being the sender text itself
C3_AsStated ==
    pc = "returned" =>
        \A k \in 1..Cardinality(HeaderLines) :
            LET t == LineMatch(lines[KthHeader(k)]).rest
                m == result.messages[k]
            IN  IF HasSenderShape(t)
                THEN /\ ~m.is_system
                     /\ m.sender = SenderText(t)
                     /\ m.content = ContentFrom(MessageText(t), KthHeader(k))
                ELSE /\ m.is_system
                     /\ m.sender = NoneSender
                     /\ m.content = ContentFrom(t, KthHeader(k))

\* C3 (amended): the text after " - " is first stripped of surrounding
\* whitespace; if the stripped text has the shape <sender-text>: <message-text>
\* at its first colon the Message is a participant message whose sender is the
\* sender text stripped, seeded with the message text; otherwise a system
\* message without sender seeded with the stripped text.  A system Message
\* never has a sender
C3_FirstColonClassification ==
    pc = "returned" =>
        /\ \A k \in 1..Cardinality(HeaderLines) :
               LET t == Strip(LineMatch(lines[KthHeader(k)]).rest)
                   m == result.messages[k]
               IN  IF HasSenderShape(t)
                   THEN /\ ~m.is_system
                        /\ m.sender = Strip(SenderText(t))
                        /\ m.content = ContentFrom(MessageText(t), KthHeader(k))
                   ELSE /\ m.is_system
                        /\ m.sender = NoneSender
                        /\ m.content = ContentFrom(t, KthHeader(k))
        /\ \A k \in 1..Len(result.messages) :
               result.messages[k].is_system => result.messages[k].sender = NoneSender

\* a participant header with a second colon in its body, and a header whose
\* sender text is followed by a blank
C3_Witness ==
    /\ pc = "returned"
    /\ Len(result.messages) = 2
    /\ result.messages[1].sender = <<"A", "b">>
    /\ result.messages[1].content = <<"x", ":", " ", "z">>
    /\ result.messages[2].sender = <<"A">>
    /\ LineMatch(lines[2]).rest = <<"A", " ", ":", " ", "x">>

\* C4: participants is strictly increasing and is exactly the set of senders
\* of the non-system messages of the Conversation
C4_ParticipantsSortedExact ==
    pc = "returned" =>
        /\ \A i \in 1..(Len(result.participants) - 1) :
               StrLess(result.participants[i], result.participants[i + 1])
        /\ {result.participants[i] : i \in 1..Len(result.participants)}
               = {result.messages[k].sender :
                      k \in {n \in 1..Len(result.messages) : ~result.messages[n].is_system}}

\* three senders met in the order B, Ab, A and returned as A, Ab, B
C4_Witness ==
    /\ pc = "returned"
    /\ Len(result.messages) = 3
    /\ result.messages[1].sender = <<"B">>
    /\ result.messages[2].sender = <<"A", "b">>
    /\ result.participants = << <<"A">>, <<"A", "b">>, <<"B">> >>

\* C5: the parser raises exactly when some line matches the header grammar and
\* has a date/time neither format parses; it then stops at that line and returns
\* no Conversation; every other input runs to the end and returns one
C5_RaisesIffBadHeaderDate ==
    LET bad == {i \in HeaderLines : HeaderTime(i) = NoneTime}
    IN  /\ pc = "loop" => \A i \in bad : idx <= i
        /\ pc = "raised" =>
               /\ bad # {}
               /\ \A i \in bad : idx <= i
               /\ idx \in bad
               /\ result = NoneConversation
        /\ pc = "returned" =>
               /\ bad = {}
               /\ result.returned
               /\ result.messages = messages

\* the parser raised after it had finalized a message, which is not returned
C5_Witness ==
    /\ pc = "raised"
    /\ Len(messages) = 2
    /\ idx = 3
    /\ result = NoneConversation

\* the line without the byte-order marks at its start
RECURSIVE LStripBOM(_)
LStripBOM(s) == IF s # <<>> /\ s[1] = BOM THEN LStripBOM(Tail(s)) ELSE s

\* C16: a byte-order mark at the start of a line is stripped before the line
\* is classified: every line that is a header line once the marks at its
\* start are removed produces a Message, so a returned Conversation holds as
\* many messages as there are such lines.
C16_AsStated ==
    pc = "returned" =>
        Len(result.messages) =
            Cardinality({i \in 1..Len(lines) : LineMatch(LStripBOM(lines[i])).ok})

\* a message is pending exactly when the content-line list is non-empty
PendingHasContentLines == (current_content_lines # <<>>) <=> (current_timestamp # NoneTime)

\* C17: a blank line appends an empty continuation line exactly when a message
\* is pending and changes nothing else; it creates no message, so a blank line
\* before the first header or after the input's last message leaves no trace,
\* and a blank line inside a block is an empty line of that message's content.
\* In every state the content-line list is non-empty iff a timestamp is
\* pending.
C17_BlankLines ==
    [][/\ PendingHasContentLines
       /\ PendingHasContentLines'
       /\ (AtLine /\ Line = <<>>) =>
             /\ current_content_lines' =
                   IF current_timestamp # NoneTime
                   THEN Append(current_content_lines, <<>>)
                   ELSE <<>>
             /\ messages' = messages
             /\ participants' = participants
             /\ current_timestamp' = current_timestamp
             /\ pc' = "loop"
       /\ pc' = "returned" =>
             /\ Len(result'.messages) = Cardinality(HeaderLines)
             /\ \A k \in 1..Cardinality(HeaderLines) :
                   LET rest == Strip(LineMatch(lines[KthHeader(k)]).rest)
                   IN  result'.messages[k].content =
                          ContentFrom(IF HasSenderShape(rest) THEN MessageText(rest) ELSE rest,
                                      KthHeader(k))]_vars

\* a header, a continuation line, a blank line and a continuation line give
\* one message with an empty line inside its content
C17_Witness ==
    /\ pc = "returned"
    /\ Len(lines) = 4
    /\ lines[3] = <<>>
    /\ Len(result.messages) = 1
    /\ result.messages[1].content = <<"y", "\n", " ", "z", "\n", "\n", "w">>

\* the stripped header text t is a name and a colon with nothing after it
IsNameAndColon(t) ==
    /\ Len(t) >= 2
    /\ t[Len(t)] = ":"
    /\ \A j \in 1..(Len(t) - 1) : t[j] # ":"

\* C21: every non-system Message returned has a non-empty sender without
\* surrounding whitespace and non-empty content, so a message with empty
\* content is a system message; a header whose text after " - " is a name and
\* a colon followed only by whitespace gives a system message without sender
\* whose content starts with that text, the body on the next lines included.
C21_ParticipantMessagesNonEmpty ==
    /\ \A k \in 1..Len(messages) :
          /\ ~messages[k].is_system =>
                /\ messages[k].sender # NoneSender
                /\ messages[k].sender # <<>>
                /\ Strip(messages[k].sender) = messages[k].sender
                /\ messages[k].sender \in participants
                /\ messages[k].content # <<>>
          /\ messages[k].content = <<>> => messages[k].is_system
    /\ \A s \in participants : s # <<>> /\ Strip(s) = s
    /\ pc = "returned" =>
          /\ result.messages = messages
          /\ \A k \in 1..Cardinality(HeaderLines) :
                LET t == Strip(LineMatch(lines[KthHeader(k)]).rest)
                IN  IsNameAndColon(t) =>
                       /\ result.messages[k].is_system
                       /\ result.messages[k].sender = NoneSender
                       /\ result.messages[k].content = ContentFrom(t, KthHeader(k))

\* a header "A: " with its body on the next line, returned as one system
\* message, and no participant
C21_Witness ==
    /\ pc = "returned"
    /\ Len(lines) = 2
    /\ LineMatch(lines[1]).ok
    /\ LineMatch(lines[1]).rest = <<"A", ":", " ">>
    /\ lines[2] = <<"w">>
    /\ Len(result.messages) = 1
    /\ result.messages[1].is_system
    /\ result.messages[1].content = <<"A", ":", "\n", "w">>
    /\ result.participants = <<>>

----------------------------------------------------------------------------
(* analysis.py: text normalization and the lexicons.                       *)
(* The letter o with an acute accent is written OAcute (upper case         *)
(* OAcuteUpper): one character that NFKD decomposes into "o" and a         *)
(* combining mark.                                                         *)

OAcute == "o-acute"

OAcuteUpper == "O-acute"

UpperCase ==
    <<"A", "B", "C", "D", "E", "F", "G", "H", "I", "J", "K", "L", "M",
      "N", "O", "P", "Q", "R", "S", "T", "U", "V", "W", "X", "Y", "Z">>

LowerCase ==
    <<"a", "b", "c", "d", "e", "f", "g", "h", "i", "j", "k", "l", "m",
      "n", "o", "p", "q", "r", "s", "t", "u", "v", "w", "x", "y", "z">>

\* str.lower() on one character
ToLower ==
    [c \in {UpperCase[i] : i \in 1..26} \cup {OAcuteUpper} |->
        IF c = OAcuteUpper THEN OAcute
        ELSE LowerCase[CHOOSE i \in 1..26 : UpperCase[i] = c]]

LowerChar(c) == IF c \in DOMAIN ToLower THEN ToLower[c] ELSE c

Lower(s) == [i \in 1..Len(s) |-> LowerChar(s[i])]

\* \w of WORD_PATTERN (re.UNICODE): letters, digits and the underscore
WordChars ==
    {UpperCase[i] : i \in 1..26} \cup {LowerCase[i] : i \in 1..26}
        \cup {Digits[i] : i \in 1..10} \cup {"_", OAcute, OAcuteUpper}

IsWordChar(c) == c \in WordChars

\* unicodedata.normalize("NFKD", c).encode("ASCII", "ignore").decode("ASCII")
AsciiOf(c) ==
    IF c = OAcute THEN <<"o">>
    ELSE IF c = OAcuteUpper THEN <<"O">>
    ELSE IF c = BOM THEN <<>>
    ELSE <<c>>

RECURSIVE Concat(_)
Concat(parts) == IF parts = <<>> THEN <<>> ELSE parts[1] \o Concat(Tail(parts))

RECURSIVE StripApostrophes(_)
StripApostrophes(s) ==
    IF s # <<>> /\ s[1] = "'" THEN StripApostrophes(Tail(s))
    ELSE IF s # <<>> /\ s[Len(s)] = "'" THEN StripApostrophes(SubSeq(s, 1, Len(s) - 1))
    ELSE s

\* _normalize_word
NormalizeWord(word) ==
    StripApostrophes(Concat([i \in 1..Len(word) |-> AsciiOf(word[i])]))

\* _normalize_text: lower case, NFKD, combining marks dropped
NormalizeText(text) ==
    [i \in 1..Len(text) |->
        IF LowerChar(text[i]) = OAcute THEN "o" ELSE LowerChar(text[i])]

\* analysis.py IGNORED_NORMALIZED_MESSAGES
IGNORED_NORMALIZED_MESSAGES ==
    { <<"<", "a", "r", "q", "u", "i", "v", "o", " ", "d", "e", " ", "m", "i", "d", "i", "a", " ", "o", "c", "u", "l", "t", "a", ">">>,
      <<"<", "a", "u", "d", "i", "o", " ", "o", "m", "i", "t", "i", "d", "o", ">">>,
      <<"<", "i", "m", "a", "g", "e", "m", " ", "o", "m", "i", "t", "i", "d", "a", ">">>,
      <<"a", "r", "q", "u", "i", "v", "o", " ", "d", "e", " ", "m", "i", "d", "i", "a", " ", "o", "c", "u", "l", "t", "a">>,
      <<"a", "u", "d", "i", "o", " ", "o", "m", "i", "t", "i", "d", "o">>,
      <<"i", "m", "a", "g", "e", "m", " ", "o", "m", "i", "t", "i", "d", "a">> }

\* analysis.py POSITIVE_WORDS
POSITIVE_WORDS ==
    { <<"a", "m", "a", "d", "a">>,
      <<"a", "m", "a", "d", "o">>,
      <<"a", "m", "i", "g", "a">>,
      <<"a", "m", "i", "g", "o">>,
      <<"a", "m", "o">>,
      <<"a", "m", "o", "r">>,
      <<"b", "e", "i", "j", "o">>,
      <<"c", "a", "r", "i", "n", "h", "o">>,
      <<"c", "a", "r", "i", "n", "h", "o", "s", "a">>,
      <<"c", "a", "r", "i", "n", "h", "o", "s", "o">>,
      <<"c", "a", "r", "o">>,
      <<"f", "e", "l", "i", "z">>,
      <<"f", "o", "f", "a">>,
      <<"f", "o", "f", "o">>,
      <<"g", "o", "s", "t", "e", "i">>,
      <<"g", "r", "a", "t", "a">>,
      <<"g", "r", "a", "t", "o">>,
      <<"l", "i", "n", "d", "a">>,
      <<"l", "i", "n", "d", "o">>,
      <<"o", "b", "r", "i", "g", "a", "d", "a">>,
      <<"o", "b", "r", "i", "g", "a", "d", "o">>,
      <<"o", "t", "i", "m", "o">>,
      <<"p", "e", "r", "f", "e", "i", "t", "o">>,
      <<"q", "u", "e", "r", "i", "d", "a">>,
      <<"q", "u", "e", "r", "i", "d", "o">>,
      <<"s", "a", "u", "d", "a", "d", "e">>,
      <<"s", "u", "c", "e", "s", "s", "o">> }

\* analysis.py NEGATIVE_WORDS
NEGATIVE_WORDS ==
    { <<"b", "r", "i", "g", "a">>,
      <<"c", "a", "n", "s", "a", "d", "a">>,
      <<"c", "a", "n", "s", "a", "d", "o">>,
      <<"c", "h", "a", "t", "e", "a", "d", "a">>,
      <<"c", "h", "a", "t", "e", "a", "d", "o">>,
      <<"e", "r", "r", "o">>,
      <<"i", "r", "r", "i", "t", "a", "d", "a">>,
      <<"i", "r", "r", "i", "t", "a", "d", "o">>,
      <<"m", "a", "g", "o", "a", "d", "a">>,
      <<"m", "a", "g", "o", "a", "d", "o">>,
      <<"m", "e", "d", "o">>,
      <<"p", "r", "o", "b", "l", "e", "m", "a">>,
      <<"r", "a", "i", "v", "a">>,
      <<"s", "o", "z", "i", "n", "h", "a">>,
      <<"s", "o", "z", "i", "n", "h", "o">>,
      <<"s", "t", "r", "e", "s", "s">>,
      <<"t", "r", "i", "s", "t", "e">>,
      <<"t", "r", "i", "s", "t", "e", "z", "a">> }

\* _should_ignore_for_word_counts
ShouldIgnoreForWordCounts(text) ==
    Strip(NormalizeText(text)) \in IGNORED_NORMALIZED_MESSAGES

\* \b at position k of s: between s[k-1] and s[k], exactly one is a word character
WordBoundary(s, k) ==
    (k > 1 /\ IsWordChar(s[k - 1])) # (k <= Len(s) /\ IsWordChar(s[k]))

\* the end of the longest run of [\w'] characters that starts at i
RECURSIVE RunEnd(_, _)
RunEnd(s, i) ==
    IF i <= Len(s) /\ (IsWordChar(s[i]) \/ s[i] = "'") THEN RunEnd(s, i + 1) ELSE i - 1

\* the end of the match of \b[\w']+\b that starts at i: the greedy run,
\* given back one character at a time until \b holds after it; i - 1 when
\* nothing matches at i
RECURSIVE MatchEnd(_, _, _)
MatchEnd(s, i, e) ==
    IF e < i THEN i - 1
    ELSE IF WordBoundary(s, e + 1) THEN e
    ELSE MatchEnd(s, i, e - 1)

\* WORD_PATTERN.finditer(s) from position i on
RECURSIVE FindWords(_, _)
FindWords(s, i) ==
    IF i > Len(s) THEN <<>>
    ELSE IF WordBoundary(s, i) /\ MatchEnd(s, i, RunEnd(s, i)) >= i
    THEN LET e == MatchEnd(s, i, RunEnd(s, i))
         IN  <<SubSeq(s, i, e)>> \o FindWords(s, e + 1)
    ELSE FindWords(s, i + 1)

\* the normalized words of one message, as _compute_sentiment reads them
NormalizedWords(content) ==
    LET found == FindWords(Lower(content), 1)
    IN  [i \in 1..Len(found) |-> NormalizeWord(found[i])]

\* len(content.split())
RECURSIVE WordCountFrom(_, _)
WordCountFrom(s, inWord) ==
    IF s = <<>> THEN 0
    ELSE IF IsSpace(s[1]) THEN WordCountFrom(Tail(s), FALSE)
    ELSE (IF inWord THEN 0 ELSE 1) + WordCountFrom(Tail(s), TRUE)

WordCount(content) == WordCountFrom(content, FALSE)

----------------------------------------------------------------------------
(* analysis.py: numbers and dates.                                         *)
(* A float that the code rounds to n decimals is held as the integer       *)
(* number of 10^-n units; an unrounded quotient is held as a fraction in   *)
(* lowest terms.  An Optional number is <<>> for None and <<v>> otherwise. *)

NoneNumber == <<>>

Some(v) == <<v>>

RECURSIVE SumSeq(_)
SumSeq(q) == IF q = <<>> THEN 0 ELSE q[1] + SumSeq(Tail(q))

RECURSIVE GCD(_, _)
GCD(a, b) == IF b = 0 THEN a ELSE GCD(b, a % b)

\* a / b for a >= 0, b > 0
Frac(a, b) == [num |-> a \div GCD(a, b), den |-> b \div GCD(a, b)]

\* round(a / b) for b > 0: to the nearest integer.  On a tie the binary
\* value of the float decides in the code; the even neighbour is taken here.
\* The ties of the relationship score that the code rounds otherwise are
\* listed in FloatTiesDown and FloatTiesUp.
RoundDiv(a, b) ==
    LET q == a \div b
        r == a % b
    IN  IF 2 * r < b THEN q
        ELSE IF 2 * r > b THEN q + 1
        ELSE IF q % 2 = 0 THEN q ELSE q + 1

\* days from 1970-01-01 to the date (proleptic Gregorian calendar)
DaysFromCivil(y, m, d) ==
    LET yy  == IF m <= 2 THEN y - 1 ELSE y
        era == yy \div 400
        yoe == yy - era * 400
        mp  == (m + 9) % 12
        doy == (153 * mp + 2) \div 5 + d - 1
        doe == yoe * 365 + yoe \div 4 - yoe \div 100 + doy
    IN  era * 146097 + doe - 719468

DayNumber(t) == DaysFromCivil(t.year, t.month, t.day)

\* the datetime as minutes since 1970-01-01 00:00
Minutes(t) == DayNumber(t) * 1440 + t.hour * 60 + t.minute

\* datetime.weekday(): Monday is 0
Weekday(t) == (DayNumber(t) + 3) % 7

\* strftime("%Y-%m-%d")
DateKey(t) == <<t.year, t.month, t.day>>

----------------------------------------------------------------------------
(* analysis.py: compute_statistics.                                        *)

\* every message kept, the empty ones too
ContentMessagesAll(msgs) == msgs

\* [message for message in conversation.messages if message.content]
ContentMessages(msgs) == SelectSeq(msgs, LAMBDA m : m.content # <<>>)

\* [m for m in messages if not m.is_system]
ParticipantMessages(msgs) == SelectSeq(msgs, LAMBDA m : ~m.is_system)

\* the keys of per_participant
Senders(pmsgs) ==
    {pmsgs[i].sender : i \in {k \in 1..Len(pmsgs) : pmsgs[k].sender # NoneSender}}

\* per_participant[sender]
PersonalMessages(pmsgs, sender) == SelectSeq(pmsgs, LAMBDA m : m.sender = sender)

\* a negative delta recorded as 0 instead of discarded
RECURSIVE ResponseTimesClampedFrom(_, _, _)
ResponseTimesClampedFrom(pmsgs, previous_message, response_times) ==
    IF pmsgs = <<>> THEN response_times
    ELSE LET message == pmsgs[1]
         IN  IF message.sender = NoneSender
             THEN ResponseTimesClampedFrom(Tail(pmsgs), previous_message, response_times)
             ELSE IF previous_message # <<>> /\ previous_message[1].sender # message.sender
             THEN LET delta == Minutes(message.timestamp) - Minutes(previous_message[1].timestamp)
                      d0    == IF delta >= 0 THEN delta ELSE 0
                      added == IF message.sender \in DOMAIN response_times
                               THEN [response_times EXCEPT ![message.sender] = Append(@, d0)]
                               ELSE response_times @@ (message.sender :> <<d0>>)
                  IN  ResponseTimesClampedFrom(Tail(pmsgs), <<message>>, added)
             ELSE ResponseTimesClampedFrom(Tail(pmsgs), <<message>>, response_times)

\* the loop of _compute_response_times; response_times is the defaultdict, a
\* function from the senders that have a recorded delta to their deltas in
\* whole minutes (timestamps carry no seconds)
RECURSIVE ResponseTimesFrom(_, _, _)
ResponseTimesFrom(pmsgs, previous_message, response_times) ==
    IF pmsgs = <<>> THEN response_times
    ELSE LET message == pmsgs[1]
         IN  IF message.sender = NoneSender
             THEN ResponseTimesFrom(Tail(pmsgs), previous_message, response_times)
             ELSE IF /\ previous_message # <<>>
                     /\ previous_message[1].sender # message.sender
                     /\ previous_message[1].sender # NoneSender
             THEN LET delta == Minutes(message.timestamp) - Minutes(previous_message[1].timestamp)
                      added == IF message.sender \in DOMAIN response_times
                               THEN [response_times EXCEPT ![message.sender] = Append(@, delta)]
                               ELSE response_times @@ (message.sender :> <<delta>>)
                  IN  ResponseTimesFrom(Tail(pmsgs), <<message>>,
                                        IF delta >= 0 THEN added ELSE response_times)
             ELSE ResponseTimesFrom(Tail(pmsgs), <<message>>, response_times)

\* _compute_response_times
ResponseTimes(pmsgs) == ResponseTimesFrom(pmsgs, <<>>, <<>>)

\* average_response_minutes: round(sum(times) / len(times), 2), in hundredths
AverageResponseMinutes(response_times) ==
    [s \in DOMAIN response_times |->
        IF response_times[s] # <<>>
        THEN Some(RoundDiv(100 * SumSeq(response_times[s]), Len(response_times[s])))
        ELSE NoneNumber]

\* the sum of f[x][1] over the x of S
RECURSIVE SumValues(_, _)
SumValues(f, S) ==
    IF S = {} THEN 0
    ELSE LET x == CHOOSE x \in S : TRUE IN f[x][1] + SumValues(f, S \ {x})

\* the mean of all recorded deltas, every delta weighted equally
OverallAverageResponseFlat(response_times, average_response_minutes) ==
    LET all == {s \in DOMAIN response_times : response_times[s] # <<>>}
        sums == [s \in all |-> <<SumSeq(response_times[s])>>]
        lens == [s \in all |-> <<Len(response_times[s])>>]
    IN  IF all # {}
        THEN Some(RoundDiv(100 * SumValues(sums, all), SumValues(lens, all)))
        ELSE NoneNumber

\* overall_average_response: the mean of the per-sender averages that are not
\* None, rounded to 2 decimals, in hundredths
OverallAverageResponse(response_times, average_response_minutes) ==
    LET valid == {s \in DOMAIN average_response_minutes :
                     average_response_minutes[s] # NoneNumber}
    IN  IF valid # {}
        THEN Some(RoundDiv(SumValues(average_response_minutes, valid), Cardinality(valid)))
        ELSE NoneNumber

\* the matches of one message, <<positive, negative>>: a word of both
\* lexicons would count as positive only (if / elif)
MessageMatches(content) ==
    IF ShouldIgnoreForWordCounts(content) THEN <<0, 0>>
    ELSE LET words == NormalizedWords(content)
         IN  <<Cardinality({i \in 1..Len(words) : words[i] \in POSITIVE_WORDS}),
               Cardinality({i \in 1..Len(words) :
                               /\ words[i] \notin POSITIVE_WORDS
                               /\ words[i] \in NEGATIVE_WORDS})>>

\* positive and negative after the loop over personal_messages
RECURSIVE SentimentCounts(_)
SentimentCounts(personal_messages) ==
    IF personal_messages = <<>> THEN <<0, 0>>
    ELSE LET head == MessageMatches(personal_messages[1].content)
             rest == SentimentCounts(Tail(personal_messages))
         IN  <<head[1] + rest[1], head[2] + rest[2]>>

\* the share of positive words among the matches, instead of the balance
SentimentOfPositiveShare(personal_messages) ==
    LET counts   == SentimentCounts(personal_messages)
        positive == counts[1]
        total    == counts[1] + counts[2]
    IN  [positive |-> positive, negative |-> counts[2],
         sentiment_score |-> IF total # 0 THEN RoundDiv(1000 * positive, total) ELSE 0]

\* _compute_sentiment, for one sender; sentiment_score in thousandths
\* (data is a function of the two counts, so that the messages are scanned once)
SentimentOf(personal_messages) ==
    LET data[counts \in Nat \X Nat] ==
            LET positive == counts[1]
                negative == counts[2]
                total    == positive + negative
            IN  [positive |-> positive, negative |-> negative,
                 sentiment_score |->
                     IF total # 0 THEN RoundDiv(1000 * (positive - negative), total) ELSE 0]
    IN  data[SentimentCounts(personal_messages)]

\* overall_sentiment_score: `if data` keeps every participant, since each
\* data is a non-empty dict; rounded to 3 decimals, in thousandths
OverallSentiment(sentiment_per_participant) ==
    LET kept   == DOMAIN sentiment_per_participant
        scores == [s \in kept |-> <<sentiment_per_participant[s].sentiment_score>>]
    IN  IF kept # {}
        THEN Some(RoundDiv(SumValues(scores, kept), Cardinality(kept)))
        ELSE NoneNumber

RECURSIVE SumChars(_)
SumChars(msgs) == IF msgs = <<>> THEN 0 ELSE Len(msgs[1].content) + SumChars(Tail(msgs))

RECURSIVE SumWords(_)
SumWords(msgs) == IF msgs = <<>> THEN 0 ELSE WordCount(msgs[1].content) + SumWords(Tail(msgs))

Max(a, b) == IF a >= b THEN a ELSE b

\* a histogram: how many of the messages have each key
Histogram(msgs, Key(_)) ==
    [k \in {Key(msgs[i].timestamp) : i \in 1..Len(msgs)} |->
        Cardinality({i \in 1..Len(msgs) : Key(msgs[i].timestamp) = k})]

HourOf(t) == t.hour

----------------------------------------------------------------------------
(* analysis.py: word and emoji counts.                                     *)
(* An emoji is one character, written by its code point ("U+1F60D").  A    *)
(* Counter is the sequence of its <<key, count>> pairs in insertion order,  *)
(* the order most_common breaks ties by.                                   *)

\* analysis.py STOPWORDS
STOPWORDS ==
    { <<"a">>,
      <<"a", "o">>,
      <<"a", "o", "s">>,
      <<"a", "r", "q", "u", "i", "v", "o">>,
      <<"a", "s">>,
      <<"a", "t", "e">>,
      <<"a", "u", "d", "i", "o">>,
      <<"c", "o", "m">>,
      <<"d", "a">>,
      <<"d", "a", "s">>,
      <<"d", "e">>,
      <<"d", "o">>,
      <<"d", "o", "s">>,
      <<"e">>,
      <<"e", "m">>,
      <<"e", "n", "t", "a", "o">>,
      <<"e", "s", "s", "a">>,
      <<"e", "s", "s", "e">>,
      <<"e", "s", "t", "a">>,
      <<"e", "s", "t", "a", "o">>,
      <<"f", "i", "c", "a", "r">>,
      <<"f", "o", "i">>,
      <<"i", "m", "a", "g", "e", "m">>,
      <<"i", "s", "s", "o">>,
      <<"j", "a">>,
      <<"l", "a">>,
      <<"m", "a", "s">>,
      <<"m", "i", "d", "i", "a">>,
      <<"n", "a">>,
      <<"n", "a", "o">>,
      <<"n", "a", "s">>,
      <<"n", "o", "s">>,
      <<"n", "u", "m">>,
      <<"n", "u", "m", "a">>,
      <<"o">>,
      <<"o", "c", "u", "l", "t", "a">>,
      <<"o", "c", "u", "l", "t", "o">>,
      <<"o", "m", "i", "t", "i", "d", "a">>,
      <<"o", "m", "i", "t", "i", "d", "o">>,
      <<"o", "s">>,
      <<"p", "a", "r", "a">>,
      <<"p", "o", "r">>,
      <<"p", "r", "a">>,
      <<"p", "r", "o">>,
      <<"q", "u", "e">>,
      <<"q", "u", "e", "m">>,
      <<"s", "e">>,
      <<"s", "e", "m">>,
      <<"s", "i", "m">>,
      <<"s", "o", "u">>,
      <<"s", "u", "a">>,
      <<"s", "u", "a", "s">>,
      <<"t", "a">>,
      <<"t", "a", "v", "a">>,
      <<"t", "e", "m">>,
      <<"t", "u", "d", "o">>,
      <<"u", "m">>,
      <<"u", "m", "a">>,
      <<"v", "o", "u">> }

\* the characters of the model that EMOJI_PATTERN matches: those of
\* POSITIVE_EMOJIS inside its code point ranges, and fourteen others
EMOJI_PATTERN ==
    { "U+2764", "U+1F389", "U+1F44D", "U+1F44E", "U+1F493", "U+1F495",
      "U+1F496", "U+1F497", "U+1F498", "U+1F49E", "U+1F525", "U+1F601",
      "U+1F602", "U+1F603", "U+1F604", "U+1F606", "U+1F60A", "U+1F60D",
      "U+1F612", "U+1F614", "U+1F618", "U+1F620", "U+1F621", "U+1F622",
      "U+1F62D", "U+1F644", "U+1F64F", "U+1F917", "U+1F923", "U+1F970" }

\* analysis.py POSITIVE_EMOJIS: U+263A lies outside the ranges of
\* EMOJI_PATTERN, and U+2764 U+FE0F is two characters
POSITIVE_EMOJIS ==
    { <<"U+263A">>, <<"U+2764">>, <<"U+2764", "U+FE0F">>, <<"U+1F493">>,
      <<"U+1F495">>, <<"U+1F496">>, <<"U+1F497">>, <<"U+1F498">>,
      <<"U+1F49E">>, <<"U+1F601">>, <<"U+1F603">>, <<"U+1F604">>,
      <<"U+1F606">>, <<"U+1F60A">>, <<"U+1F60D">>, <<"U+1F618">>,
      <<"U+1F917">>, <<"U+1F970">> }

\* counter.most_common(10)
TopWords == 10

\* emoji_counts.most_common(15)
TopEmojis == 15

\* counts[key] += 1
CounterAdd(counts, key) ==
    IF \E i \in 1..Len(counts) : counts[i][1] = key
    THEN [i \in 1..Len(counts) |->
             IF counts[i][1] = key THEN <<key, counts[i][2] + 1>> ELSE counts[i]]
    ELSE Append(counts, <<key, 1>>)

RECURSIVE CounterAddAll(_, _)
CounterAddAll(counts, keys) ==
    IF keys = <<>> THEN counts
    ELSE CounterAddAll(CounterAdd(counts, keys[1]), Tail(keys))

\* the words of one message that _count_words counts, in order
CountedWords(content) ==
    IF ShouldIgnoreForWordCounts(content) THEN <<>>
    ELSE SelectSeq(NormalizedWords(content), LAMBDA w : w # <<>> /\ w \notin STOPWORDS)

\* _count_words
RECURSIVE CountWordsFrom(_, _)
CountWordsFrom(msgs, counts) ==
    IF msgs = <<>> THEN counts
    ELSE CountWordsFrom(Tail(msgs), CounterAddAll(counts, CountedWords(msgs[1].content)))

CountWords(msgs) == CountWordsFrom(msgs, <<>>)

\* EMOJI_PATTERN.findall(content): every matching character, as a string
FindEmojis(content) ==
    LET found == SelectSeq(content, LAMBDA c : c \in EMOJI_PATTERN)
    IN  [i \in 1..Len(found) |-> <<found[i]>>]

\* _count_emojis
RECURSIVE CountEmojisFrom(_, _)
CountEmojisFrom(msgs, counts) ==
    IF msgs = <<>> THEN counts
    ELSE CountEmojisFrom(Tail(msgs), CounterAddAll(counts, FindEmojis(msgs[1].content)))

CountEmojis(msgs) == CountEmojisFrom(msgs, <<>>)

\* the n highest counts, and among equal counts the keys inserted last
MostCommonLatestFirst(counts, n) ==
    LET Rank(i) == Cardinality({j \in 1..Len(counts) :
                       \/ counts[j][2] > counts[i][2]
                       \/ counts[j][2] = counts[i][2] /\ j > i})
        m       == IF n < Len(counts) THEN n ELSE Len(counts)
    IN  [r \in 1..m |-> counts[CHOOSE i \in 1..Len(counts) : Rank(i) = r - 1]]

\* Counter.most_common(n): heapq.nlargest by count, which is
\* sorted(items, key=count, reverse=True)[:n] and keeps equal counts in
\* insertion order
MostCommon(counts, n) ==
    LET Rank(i) == Cardinality({j \in 1..Len(counts) :
                       \/ counts[j][2] > counts[i][2]
                       \/ counts[j][2] = counts[i][2] /\ j < i})
        m       == IF n < Len(counts) THEN n ELSE Len(counts)
    IN  [r \in 1..m |-> counts[CHOOSE i \in 1..Len(counts) : Rank(i) = r - 1]]

----------------------------------------------------------------------------
(* analysis.py: _compute_relationship_score.                               *)
(* The floats of the score are exact rationals [num, den] in lowest terms  *)
(* with den > 0; round(x, n) gives the integer number of 10^-n units.      *)

QNorm(n, d) ==
    LET g == GCD(IF n < 0 THEN -n ELSE n, d)
    IN  [num |-> n \div g, den |-> d \div g]

QInt(n) == [num |-> n, den |-> 1]

QAdd(a, b) == QNorm(a.num * b.den + b.num * a.den, a.den * b.den)

QSub(a, b) == QNorm(a.num * b.den - b.num * a.den, a.den * b.den)

QMul(a, b) == QNorm(a.num * b.num, a.den * b.den)

QLeq(a, b) == a.num * b.den <= b.num * a.den

QMin(a, b) == IF QLeq(a, b) THEN a ELSE b

QMax(a, b) == IF QLeq(b, a) THEN a ELSE b

\* round(q, n) in units of 1 / scale, scale = 10^n
RoundQ(q, scale) == RoundDiv(q.num * scale, q.den)

\* round(x, 1) acts on the double the code computed for x, not on the exact
\* value.  Where the exact value is a decimal tie the double lies on one side
\* of it, and the code was run to see on which: among the ties that the
\* conversations of the model produce, these are rounded down ...
FloatTiesDown ==
    { <<"score", QNorm(6375, 100)>>, <<"sentiment", QNorm(7855, 100)>> }

\* ... and these up; every other tie goes to the even neighbour
FloatTiesUp ==
    { <<"score", QNorm(5125, 100)>>, <<"score", QNorm(6125, 100)>>,
      <<"sentiment", QNorm(4285, 100)>> }

\* round(q, 1) for the field key of the score, in tenths
RoundTenths(key, q) ==
    IF <<key, q>> \in FloatTiesDown THEN (q.num * 10) \div q.den
    ELSE IF <<key, q>> \in FloatTiesUp THEN (q.num * 10) \div q.den + 1
    ELSE RoundQ(q, 10)

\* balance_score
BalanceScore(participant_share) ==
    LET senders == DOMAIN participant_share
    IN  IF senders # {}
        THEN LET largest_share ==
                     participant_share[CHOOSE s \in senders : \A t \in senders :
                                           QLeq(participant_share[t], participant_share[s])]
                 smallest_share ==
                     participant_share[CHOOSE s \in senders : \A t \in senders :
                                           QLeq(participant_share[s], participant_share[t])]
             IN  QMax(QInt(0),
                      QSub(QInt(1), QMul(QSub(largest_share, smallest_share), QNorm(1, 100))))
        ELSE QNorm(1, 2)

\* avg_messages_per_active_day, with active_days = max(active_days, 1)
AvgMessagesPerActiveDay(participant_messages, active_days) ==
    QNorm(Len(participant_messages), Max(active_days, 1))

\* engagement_score
EngagementScore(participant_messages, active_days) ==
    QMin(QMul(AvgMessagesPerActiveDay(participant_messages, active_days), QNorm(1, 40)),
         QInt(1))

\* sum(emoji_counts.values())
TotalEmojis(emoji_counts) == SumSeq([i \in 1..Len(emoji_counts) |-> emoji_counts[i][2]])

\* positive_ratio
PositiveRatio(emoji_counts) ==
    LET positive_emojis ==
            SumSeq([i \in 1..Len(emoji_counts) |->
                       IF emoji_counts[i][1] \in POSITIVE_EMOJIS THEN emoji_counts[i][2] ELSE 0])
    IN  IF TotalEmojis(emoji_counts) # 0
        THEN QNorm(positive_emojis, TotalEmojis(emoji_counts))
        ELSE QInt(0)

\* positive_emoji_score: positive_ratio / 0.25, at most 1.0
PositiveEmojiScore(emoji_counts) == QMin(QMul(PositiveRatio(emoji_counts), QInt(4)), QInt(1))

\* a responsiveness that falls linearly from 0 to 60 minutes
ResponsivenessScoreFromZero(overall_average_response) ==
    IF overall_average_response = NoneNumber THEN QNorm(1, 2)
    ELSE IF overall_average_response[1] >= 6000 THEN QInt(0)
    ELSE QSub(QInt(1), QNorm(overall_average_response[1], 6000))

\* responsiveness_score; overall_average_response in hundredths of a minute
ResponsivenessScore(overall_average_response) ==
    IF overall_average_response = NoneNumber THEN QNorm(1, 2)
    ELSE IF overall_average_response[1] <= 500 THEN QInt(1)
    ELSE IF overall_average_response[1] >= 6000 THEN QInt(0)
    ELSE QMax(QInt(0), QSub(QInt(1), QNorm(overall_average_response[1] - 500, 5500)))

\* sentiment_component; overall_sentiment_score in thousandths
SentimentComponent(overall_sentiment_score) ==
    IF overall_sentiment_score = NoneNumber THEN QNorm(1, 2)
    ELSE LET clamped == Max(-1000, IF overall_sentiment_score[1] <= 1000
                                   THEN overall_sentiment_score[1] ELSE 1000)
         IN  QNorm(clamped + 1000, 2000)

\* final_score with all five weights equal
FinalScoreEqualWeights(balance_score, engagement_score, positive_emoji_score, responsiveness_score, sentiment_component) ==
    QMul(QAdd(QAdd(QAdd(QAdd(balance_score, engagement_score), positive_emoji_score),
                   responsiveness_score), sentiment_component),
         QInt(20))

\* final_score
FinalScore(balance_score, engagement_score, positive_emoji_score, responsiveness_score, sentiment_component) ==
    QMul(QAdd(QAdd(QAdd(QAdd(QMul(balance_score, QNorm(30, 100)),
                             QMul(engagement_score, QNorm(25, 100))),
                        QMul(positive_emoji_score, QNorm(20, 100))),
                   QMul(responsiveness_score, QNorm(15, 100))),
              QMul(sentiment_component, QNorm(10, 100))),
         QInt(100))

\* the default returned when there is no participant message
ZeroRelationshipScore ==
    [score |-> 0, scale |-> "0-100", components |-> <<>>, inputs |-> <<>>]

\* a score computed also when there is no participant message
RelationshipScoreAlways(messages_per_participant, participant_share, participant_messages, emoji_counts, active_days, average_response_minutes, overall_average_response, sentiment_per_participant, overall_sentiment_score) ==
    [score |-> RoundTenths("score",
                           FinalScore(BalanceScore(participant_share),
                                      EngagementScore(participant_messages, active_days),
                                      PositiveEmojiScore(emoji_counts),
                                      ResponsivenessScore(overall_average_response),
                                      SentimentComponent(overall_sentiment_score))),
     scale |-> "0-100",
     components |->
         [balance |-> RoundTenths("balance", QMul(BalanceScore(participant_share), QInt(100)))],
     inputs |-> [total_emojis |-> TotalEmojis(emoji_counts)]]

\* _compute_relationship_score: score and components in tenths,
\* average_messages_per_active_day in hundredths, positive_emoji_ratio in
\* thousandths
RelationshipScore(messages_per_participant, participant_share, participant_messages, emoji_counts, active_days, average_response_minutes, overall_average_response, sentiment_per_participant, overall_sentiment_score) ==
    IF participant_messages = <<>> THEN ZeroRelationshipScore
    ELSE LET balance_score        == BalanceScore(participant_share)
             engagement_score     == EngagementScore(participant_messages, active_days)
             positive_emoji_score == PositiveEmojiScore(emoji_counts)
             responsiveness_score == ResponsivenessScore(overall_average_response)
             sentiment_component  == SentimentComponent(overall_sentiment_score)
         IN  [score |-> RoundTenths("score",
                                    FinalScore(balance_score, engagement_score,
                                               positive_emoji_score, responsiveness_score,
                                               sentiment_component)),
              scale |-> "0-100",
              components |->
                  [balance        |-> RoundTenths("balance", QMul(balance_score, QInt(100))),
                   engagement     |-> RoundTenths("engagement", QMul(engagement_score, QInt(100))),
                   positive_emoji |->
                       RoundTenths("positive_emoji", QMul(positive_emoji_score, QInt(100))),
                   responsiveness |->
                       RoundTenths("responsiveness", QMul(responsiveness_score, QInt(100))),
                   sentiment      |->
                       RoundTenths("sentiment", QMul(sentiment_component, QInt(100)))],
              inputs |->
                  [participant_share |-> participant_share,
                   average_messages_per_active_day |->
                       RoundQ(AvgMessagesPerActiveDay(participant_messages, active_days), 100),
                   positive_emoji_ratio |-> RoundQ(PositiveRatio(emoji_counts), 1000),
                   average_response_time_minutes |-> overall_average_response,
                   average_response_time_per_participant |-> average_response_minutes,
                   overall_sentiment_score |-> overall_sentiment_score,
                   sentiment_per_participant |-> sentiment_per_participant,
                   total_emojis |-> TotalEmojis(emoji_counts)]]

----------------------------------------------------------------------------
(* analysis.py: the report of compute_statistics.                          *)

\* compute_statistics: the report
ComputeStatistics(conv) ==
    LET msgs                 == ContentMessages(conv.messages)
        total_messages       == Len(msgs)
        participant_messages == ParticipantMessages(msgs)
        senders              == Senders(participant_messages)
        per_participant      == [s \in senders |-> PersonalMessages(participant_messages, s)]
        messages_per_day     == Histogram(participant_messages, DateKey)
        active_days          == Cardinality(DOMAIN messages_per_day)
        response_times       == ResponseTimes(participant_messages)
        average_response     == AverageResponseMinutes(response_times)
        sentiment            == [s \in senders |-> SentimentOf(per_participant[s])]
        emoji_counts         == CountEmojis(participant_messages)
        messages_per_participant == [s \in senders |-> Len(per_participant[s])]
        participant_share    ==
            [s \in senders |->
                IF total_messages # 0
                THEN Frac(100 * Len(per_participant[s]), total_messages)
                ELSE Frac(0, 1)]
        overall_average_response == OverallAverageResponse(response_times, average_response)
        overall_sentiment_score  == OverallSentiment(sentiment)
        relationship_score   ==
            RelationshipScore(messages_per_participant, participant_share,
                              participant_messages, emoji_counts, active_days,
                              average_response, overall_average_response, sentiment,
                              overall_sentiment_score)
    IN  [total_messages |-> total_messages,
         system_messages |-> Len(SelectSeq(msgs, LAMBDA m : m.is_system)),
         participant_messages |-> Len(participant_messages),
         participants |-> Sorted({conv.participants[i] : i \in 1..Len(conv.participants)}),
         messages_per_participant |-> messages_per_participant,
         participant_share |-> participant_share,
         average_chars_per_message |->
             [s \in senders |->
                 Frac(SumChars(per_participant[s]), Max(1, Len(per_participant[s])))],
         average_words_per_message |->
             [s \in senders |->
                 Frac(SumWords(per_participant[s]), Max(1, Len(per_participant[s])))],
         hourly_distribution |-> Histogram(participant_messages, HourOf),
         weekday_distribution |-> Histogram(participant_messages, Weekday),
         messages_per_day |-> messages_per_day,
         first_message_at |-> IF msgs # <<>> THEN msgs[1].timestamp ELSE NoneTime,
         last_message_at |-> IF msgs # <<>> THEN msgs[Len(msgs)].timestamp ELSE NoneTime,
         duration_days |->
             IF msgs # <<>>
             THEN (Minutes(msgs[Len(msgs)].timestamp) - Minutes(msgs[1].timestamp)) \div 1440 + 1
             ELSE 0,
         active_days_with_messages |-> active_days,
         average_messages_per_active_day |->
             IF active_days # 0
             THEN RoundDiv(100 * Len(participant_messages), active_days)
             ELSE 100 * Len(participant_messages),
         top_words_per_participant |->
             [s \in senders |-> MostCommon(CountWords(per_participant[s]), TopWords)],
         emoji_counts |-> MostCommon(emoji_counts, TopEmojis),
         positive_emoji_ratio |->
             IF "positive_emoji_ratio" \in DOMAIN relationship_score.inputs
             THEN relationship_score.inputs.positive_emoji_ratio
             ELSE 0,
         average_response_time_minutes |-> average_response,
         overall_average_response_time_minutes |-> overall_average_response,
         sentiment_per_participant |-> sentiment,
         overall_sentiment_score |-> overall_sentiment_score,
         relationship_score |-> relationship_score]

\* One operation of compute_statistics that raises on an operand of 0 (a
\* division, an index into a list, max of a collection): where it is, whether
\* the code evaluates it, and its operand (a divisor or a size).
Operation(site, reached, operand) == [site |-> site, reached |-> reached, operand |-> operand]

\* only the division of line 379, evaluated without its guard
PartialOperationsUnguarded(conv) ==
    LET participant_messages == ParticipantMessages(ContentMessages(conv.messages))
    IN  {Operation("len(participant_messages) / active_days", TRUE,
                   Cardinality(DOMAIN Histogram(participant_messages, DateKey)))}

\* the operations of compute_statistics and of the functions it calls that
\* raise on an operand of 0, each with the guard the code puts before it
PartialOperations(conv) ==
    LET msgs                 == ContentMessages(conv.messages)
        total_messages       == Len(msgs)
        participant_messages == ParticipantMessages(msgs)
        senders              == Senders(participant_messages)
        per_participant      == [s \in senders |-> PersonalMessages(participant_messages, s)]
        active_days          == Cardinality(DOMAIN Histogram(participant_messages, DateKey))
        response_times       == ResponseTimes(participant_messages)
        valid                == {s \in DOMAIN response_times : response_times[s] # <<>>}
        totals               ==
            {c[1] + c[2] : c \in {SentimentCounts(per_participant[s]) : s \in senders}}
    IN  {Operation("messages[0]", msgs # <<>>, Len(msgs)),
         Operation("count / total_messages", senders # {} /\ total_messages # 0, total_messages),
         Operation("len(participant_messages) / active_days", active_days # 0, active_days),
         Operation("sum(valid_response_averages) / len(valid_response_averages)",
                   valid # {}, Cardinality(valid)),
         Operation("sum(sentiment_scores) / len(sentiment_scores)",
                   senders # {}, Cardinality(senders)),
         Operation("max(participant_share.values())",
                   participant_messages # <<>> /\ senders # {}, Cardinality(senders)),
         Operation("len(participant_messages) / max(active_days, 1)",
                   participant_messages # <<>>, Max(active_days, 1))}
        \cup {Operation("positive_emojis / total_emojis",
                        participant_messages # <<>> /\ total_emojis # 0, total_emojis) :
                 total_emojis \in {TotalEmojis(CountEmojis(participant_messages))}}
        \cup {Operation("sum / max(1, len(personal_messages))", TRUE,
                        Max(1, Len(per_participant[s]))) : s \in senders}
        \cup {Operation("sum(times) / len(times)", response_times[s] # <<>>,
                        Len(response_times[s])) : s \in DOMAIN response_times}
        \cup {Operation("(positive - negative) / total", total # 0, total) : total \in totals}

\* compute_statistics ends with an exception instead of a report
Raises(conv) == \E op \in PartialOperations(conv) : op.reached /\ op.operand = 0

\* what a call that raised leaves in place of a report
Raised == [raised |-> TRUE]

\* the outcome of compute_statistics(conv): the report, or the exception
Outcome(conv) == IF Raises(conv) THEN Raised ELSE ComputeStatistics(conv)

----------------------------------------------------------------------------
(* compute_statistics on a Conversation the caller built: the messages are *)
(* drawn from MessageUniverse, each at most once and in any order (the     *)
(* function does not require them sorted), and between two calls the       *)
(* caller may insert or remove messages with empty content.                *)

\* models.py Message(timestamp, sender, content, is_system)
Msg(timestamp, sender, content) ==
    [timestamp |-> timestamp, sender |-> sender, content |-> content,
     is_system |-> sender = NoneSender]

T0 == [year |-> 2023, month |-> 2, day |-> 1, hour |-> 10, minute |-> 0]

T1 == [T0 EXCEPT !.minute = 1]

\* the day before, another hour
T2 == [year |-> 2023, month |-> 1, day |-> 31, hour |-> 9, minute |-> 0]

SenderA == <<"A">>

SenderB == <<"B">>

SenderC == <<"C">>

\* six positive words and one negative word
MixedContent ==
    <<"A", "m", "o", ",", " ", "a", "m", "o", "!", " ", OAcuteUpper, "t", "i", "m", "o", ",", " ", "l", "i", "n", "d", "o", ",", " ", "f", "e", "l", "i", "z", " ", "a", "m", "o", "r", ".", ".", ".", " ", "e", "r", "r", "o">>

ContentUniverse ==
    { Msg(T0, SenderA, <<"o", "i">>),
      Msg(T1, SenderA, <<"A", "m", "o">>),
      Msg(T0, SenderB, <<"e", "r", "r", "o">>),
      Msg(T1, SenderB, <<"o", "i">>),
      Msg(T1, SenderC, MixedContent),
      Msg(T0, NoneSender, <<"u", "p">>) }

EmptyUniverse == { Msg(T2, SenderA, <<>>), Msg(T2, NoneSender, <<>>) }

MessageUniverse == ContentUniverse \cup EmptyUniverse

\* the message lists of the model: up to MaxMsgs distinct messages
MessageLists ==
    {q \in UNION {[1..k -> MessageUniverse] : k \in 0..MaxMsgs} :
        \A i, j \in 1..Len(q) : i # j => q[i] # q[j]}

\* conversation.participants as the parser leaves it: the sorted senders
ConversationOf(msgs) ==
    [participants |-> Sorted({msgs[i].sender : i \in 1..Len(msgs)} \ {NoneSender}),
     messages |-> msgs]

StatsInit ==
    /\ raw_text = <<>>
    /\ lines = <<>>
    /\ idx = 1
    /\ messages = <<>>
    /\ participants = {}
    /\ current_timestamp = NoneTime
    /\ current_sender = NoneSender
    /\ current_is_system = FALSE
    /\ current_content_lines = <<>>
    /\ pc = "loop"
    /\ result = NoneConversation
    /\ conversation \in {ConversationOf(msgs) : msgs \in MessageLists}
    /\ reports = {}
    /\ runs = <<>>
    /\ lexicon_edits = {}

\* report = compute_statistics(conversation); the caller keeps the reports,
\* each with the length of the list it was computed from
CallComputeStatistics ==
    /\ reports' = reports \cup {[size   |-> Len(conversation.messages),
                                  report |-> Outcome(conversation)]}
    /\ UNCHANGED <<parserVars, conversation, runs, lexicon_edits>>

\* conversation.messages.insert(p, m) for a message m with empty content
InsertEmptyMessage ==
    /\ Len(conversation.messages) < MaxMsgs
    /\ \E m \in EmptyUniverse, p \in 0..Len(conversation.messages) :
          /\ \A i \in 1..Len(conversation.messages) : conversation.messages[i] # m
          /\ conversation' =
                [conversation EXCEPT !.messages =
                    SubSeq(@, 1, p) \o <<m>> \o SubSeq(@, p + 1, Len(@))]
    /\ UNCHANGED <<parserVars, reports, runs, lexicon_edits>>

\* del conversation.messages[p] for a message with empty content
RemoveEmptyMessage ==
    /\ \E p \in 1..Len(conversation.messages) :
          /\ conversation.messages[p].content = <<>>
          /\ conversation' =
                [conversation EXCEPT !.messages =
                    SubSeq(@, 1, p - 1) \o SubSeq(@, p + 1, Len(@))]
    /\ UNCHANGED <<parserVars, reports, runs, lexicon_edits>>

StatsNext ==
    \/ CallComputeStatistics
    \/ InsertEmptyMessage
    \/ RemoveEmptyMessage

StatsSpec == StatsInit /\ [][StatsNext]_vars

----------------------------------------------------------------------------
(* Repeated runs of compute_statistics on one Conversation.  The function  *)
(* builds its list of messages, its counters and its dictionaries anew in  *)
(* every call, assigns to no attribute of its argument and only tests      *)
(* membership in the module-level lexicons.                                *)

\* a run that also drops the empty-content messages from the argument's own
\* list and adds a word to STOPWORDS
RerunInPlace ==
    /\ Len(runs) < MaxRuns
    /\ runs' = Append(runs, Outcome(conversation))
    /\ conversation' = [conversation EXCEPT !.messages = ContentMessages(@)]
    /\ lexicon_edits' = lexicon_edits \cup {<<"STOPWORDS", "add", <<"o", "i">>>>}
    /\ UNCHANGED <<parserVars, reports>>

\* runs.append(compute_statistics(conversation))
Rerun ==
    /\ Len(runs) < MaxRuns
    /\ runs' = Append(runs, Outcome(conversation))
    /\ UNCHANGED <<parserVars, conversation, reports, lexicon_edits>>

RerunNext == Rerun

RerunSpec == StatsInit /\ [][RerunNext]_vars

----------------------------------------------------------------------------
(* compute_statistics on conversations with long word and emoji lists and  *)
(* with response times between 5 minutes and 2 hours.                      *)

T3 == [T0 EXCEPT !.minute = 5]

T4 == [T0 EXCEPT !.minute = 50]

T5 == [T0 EXCEPT !.hour = 11, !.minute = 5]

T6 == [T0 EXCEPT !.hour = 12]

\* eleven distinct words, none a stop word
ElevenWords ==
    <<"b", " ", "c", " ", "d", " ", "f", " ", "g", " ", "h", " ", "j",
       " ", "k", " ", "l", " ", "n", " ", "p">>

\* the eleventh word twice and a positive emoji
RepeatedWord == <<"p", " ", "p", " ", "U+1F60D">>

\* sixteen distinct emojis, the first and the ninth positive
SixteenEmojis ==
    <<"U+2764", "U+1F622", "U+1F62D", "U+1F621", "U+1F620", "U+1F44D",
       "U+1F44E", "U+1F525", "U+1F618", "U+1F389", "U+1F614", "U+1F612",
       "U+1F644", "U+1F602", "U+1F923", "U+1F64F">>

\* the sixteenth emoji twice and a stop word
RepeatedEmoji == <<"U+1F64F", "U+1F64F", " ", "d", "e">>

ScoreUniverse ==
    { Msg(T0, SenderA, ElevenWords),
      Msg(T5, SenderA, RepeatedWord),
      Msg(T3, SenderB, SixteenEmojis),
      Msg(T4, SenderB, RepeatedEmoji),
      Msg(T6, SenderC, <<"o", "k">>) } \cup EmptyUniverse

\* up to MaxMsgs distinct messages of ScoreUniverse
ScoreLists ==
    {q \in UNION {[1..k -> ScoreUniverse] : k \in 0..MaxMsgs} :
        \A i, j \in 1..Len(q) : i # j => q[i] # q[j]}

ScoreInit ==
    /\ raw_text = <<>>
    /\ lines = <<>>
    /\ idx = 1
    /\ messages = <<>>
    /\ participants = {}
    /\ current_timestamp = NoneTime
    /\ current_sender = NoneSender
    /\ current_is_system = FALSE
    /\ current_content_lines = <<>>
    /\ pc = "loop"
    /\ result = NoneConversation
    /\ conversation \in {ConversationOf(msgs) : msgs \in ScoreLists}
    /\ reports = {}
    /\ runs = <<>>
    /\ lexicon_edits = {}

ScoreSpec == ScoreInit /\ [][StatsNext]_vars

----------------------------------------------------------------------------
(* The statistics claims.  They are stated over the conversation and the   *)
(* reports the caller holds; the reference values are computed from the    *)
(* message list directly, without the operators of compute_statistics.     *)

Abs(x) == IF x >= 0 THEN x ELSE -x

\* the message list without its empty-content messages
RECURSIVE DropEmpty(_)
DropEmpty(msgs) ==
    IF msgs = <<>> THEN <<>>
    ELSE IF Len(msgs[1].content) = 0 THEN DropEmpty(Tail(msgs))
    ELSE <<msgs[1]>> \o DropEmpty(Tail(msgs))

\* the content-bearing non-system messages, in sequence order
RECURSIVE Scanned(_)
Scanned(msgs) ==
    IF msgs = <<>> THEN <<>>
    ELSE IF Len(msgs[1].content) > 0 /\ ~msgs[1].is_system
    THEN <<msgs[1]>> \o Scanned(Tail(msgs))
    ELSE Scanned(Tail(msgs))

\* minutes from the k-1-th scanned message to the k-th
DeltaAt(P, k) == Minutes(P[k].timestamp) - Minutes(P[k - 1].timestamp)

\* the positions whose delta is recorded
Recorded(P) ==
    {k \in 2..Len(P) : P[k].sender # P[k - 1].sender /\ DeltaAt(P, k) >= 0}

\* the deltas recorded for sender s from position k on, in order
RECURSIVE DeltasOf(_, _, _)
DeltasOf(P, s, k) ==
    IF k > Len(P) THEN <<>>
    ELSE (IF k \in Recorded(P) /\ P[k].sender = s THEN <<DeltaAt(P, k)>> ELSE <<>>)
         \o DeltasOf(P, s, k + 1)

\* the sum of g[x] over the x of S
RECURSIVE SumOver(_, _)
SumOver(g, S) ==
    IF S = {} THEN 0
    ELSE LET x == CHOOSE x \in S : TRUE IN g[x] + SumOver(g, S \ {x})

\* v is a / b rounded to the nearest integer (b > 0)
IsRounded(v, a, b) == 2 * Abs(b * v - a) <= b

\* C6: compute_statistics drops every empty-content message first:
\* total_messages counts the messages with non-empty content and equals
\* system_messages + participant_messages, the first and last timestamps, the
\* per-participant counts and the histograms are those of the content-bearing
\* messages, and all reports computed while empty-content messages were
\* inserted into or removed from the list are the same report.
C6_EmptyContentIgnored ==
    LET kept == DropEmpty(conversation.messages)
    IN  \A x \in reports :
            LET r == x.report
            IN  /\ \A y \in reports : y.report = r
                /\ r.total_messages = Len(kept)
                /\ r.total_messages = r.system_messages + r.participant_messages
                /\ r.first_message_at = (IF kept = <<>> THEN NoneTime ELSE kept[1].timestamp)
                /\ r.last_message_at =
                      (IF kept = <<>> THEN NoneTime ELSE kept[Len(kept)].timestamp)
                /\ DOMAIN r.messages_per_participant =
                      {kept[k].sender : k \in 1..Len(kept)} \ {NoneSender}
                /\ \A s \in DOMAIN r.messages_per_participant :
                      /\ r.messages_per_participant[s] =
                            Cardinality({k \in 1..Len(kept) : kept[k].sender = s})
                      /\ r.participant_share[s].num * Len(kept) =
                            100 * r.messages_per_participant[s] * r.participant_share[s].den
                /\ DOMAIN r.hourly_distribution =
                      {kept[k].timestamp.hour : k \in {j \in 1..Len(kept) : ~kept[j].is_system}}
                /\ \A h \in DOMAIN r.hourly_distribution :
                      r.hourly_distribution[h] =
                          Cardinality({k \in 1..Len(kept) :
                                          ~kept[k].is_system /\ kept[k].timestamp.hour = h})
                /\ DOMAIN r.messages_per_day =
                      {DateKey(kept[k].timestamp) : k \in {j \in 1..Len(kept) : ~kept[j].is_system}}
                /\ DOMAIN r.average_response_time_minutes =
                      {Scanned(kept)[k].sender : k \in Recorded(Scanned(kept))}

\* the same report computed from the list without empty-content messages and
\* from the list with two of them, one now at the front with the earliest
\* timestamp
C6_Witness ==
    /\ \E x, y \in reports :
          /\ x.size = Len(DropEmpty(conversation.messages))
          /\ y.size = x.size + Cardinality(EmptyUniverse)
          /\ x.report = y.report
          /\ x.report.total_messages = x.size
          /\ x.report.system_messages = 1
          /\ x.report.first_message_at = T0
    /\ Len(conversation.messages) = MaxMsgs
    /\ conversation.messages[1].content = <<>>

\* C7: a delta is recorded for a message's sender exactly when the preceding
\* content-bearing non-system message has another sender and the delta is
\* >= 0; negative deltas are discarded, system messages neither produce nor
\* interrupt a delta, and a sender without a valid delta is absent from
\* average_response_time_minutes.
C7_ResponseTimesRecorded ==
    LET P       == Scanned(conversation.messages)
        rt      == ResponseTimes(ParticipantMessages(ContentMessages(conversation.messages)))
        senders == {P[k].sender : k \in Recorded(P)}
    IN  /\ DOMAIN rt = senders
        /\ \A s \in senders : rt[s] = DeltasOf(P, s, 2)
        /\ \A x \in reports :
              LET avg == x.report.average_response_time_minutes
              IN  /\ DOMAIN avg = senders
                  /\ \A s \in senders : avg[s] # NoneNumber

\* a report of a list where a delta is recorded across a system message and
\* a negative delta between two senders is discarded, its sender absent
C7_Witness ==
    /\ reports # {}
    /\ Len(conversation.messages) = MaxMsgs
    /\ LET msgs == conversation.messages
           P    == Scanned(msgs)
           avg  == (CHOOSE x \in reports : TRUE).report.average_response_time_minutes
       IN  /\ \E j \in 2..(Len(msgs) - 1) :
                 /\ msgs[j].is_system /\ msgs[j].content # <<>>
                 /\ ~msgs[j - 1].is_system /\ ~msgs[j + 1].is_system
                 /\ msgs[j - 1].content # <<>> /\ msgs[j + 1].content # <<>>
                 /\ msgs[j + 1].sender # msgs[j - 1].sender
                 /\ msgs[j + 1].sender \in DOMAIN avg
           /\ \E k \in 2..Len(P) :
                 /\ P[k].sender # P[k - 1].sender
                 /\ DeltaAt(P, k) < 0
                 /\ P[k].sender \notin DOMAIN avg

\* C8 as stated: the overall average is exactly the mean of the per-sender
\* averages, and is None exactly when no sender has a recorded delta.
C8_AsStated ==
    \A x \in reports :
        LET r   == x.report
            avg == r.average_response_time_minutes
            S   == DOMAIN avg
            g   == [s \in S |-> avg[s][1]]
            o   == r.overall_average_response_time_minutes
        IN  /\ (o = NoneNumber) <=> (Recorded(Scanned(conversation.messages)) = {})
            /\ o # NoneNumber => Cardinality(S) * o[1] = SumOver(g, S)

\* C8: the overall average is the mean of the per-sender averages (each
\* sender weighted equally, whatever its number of deltas) rounded to two
\* decimals, and is None exactly when no sender has a recorded delta.
C8_MeanOfMeansRounded ==
    \A x \in reports :
        LET r   == x.report
            avg == r.average_response_time_minutes
            S   == DOMAIN avg
            g   == [s \in S |-> avg[s][1]]
            o   == r.overall_average_response_time_minutes
        IN  /\ (o = NoneNumber) <=> (Recorded(Scanned(conversation.messages)) = {})
            /\ o # NoneNumber => IsRounded(o[1], SumOver(g, S), Cardinality(S))

\* a report where one sender has two deltas of 0 minutes and another one delta
\* of 1 minute: the mean of the averages is 0.5, the mean of the deltas 0.33
C8_Witness ==
    /\ reports # {}
    /\ LET P   == Scanned(conversation.messages)
           r   == (CHOOSE x \in reports : TRUE).report
           avg == r.average_response_time_minutes
       IN  /\ Cardinality(Recorded(P)) = 3
           /\ Cardinality(DOMAIN avg) = 2
           /\ \E s, t \in DOMAIN avg : avg[s] = <<0>> /\ avg[t] = <<100>>
           /\ r.overall_average_response_time_minutes = <<50>>

\* C9 as stated: the overall sentiment is the mean (to three decimals) of the
\* scores of the participants with at least one matched word only, and is None
\* when no participant has a matched word.
C9_AsStated ==
    \A x \in reports :
        LET r      == x.report
            sent   == r.sentiment_per_participant
            signal == {s \in DOMAIN sent : sent[s].positive + sent[s].negative > 0}
            g      == [s \in signal |-> sent[s].sentiment_score]
            o      == r.overall_sentiment_score
        IN  IF signal = {} THEN o = NoneNumber
            ELSE o # NoneNumber /\ IsRounded(o[1], SumOver(g, signal), Cardinality(signal))

\* C10 as stated: the score is exactly (positive - negative) / (positive +
\* negative), and 0.0 without a matched word.
C10_AsStated ==
    \A x \in reports :
        LET sent == x.report.sentiment_per_participant
        IN  \A s \in DOMAIN sent :
                LET total == sent[s].positive + sent[s].negative
                IN  IF total = 0 THEN sent[s].sentiment_score = 0
                    ELSE total * sent[s].sentiment_score
                             = 1000 * (sent[s].positive - sent[s].negative)

\* C10: every participant with a content-bearing message has a score, which
\* is (positive - negative) / (positive + negative) rounded to three
\* decimals, lies in [-1, 1], and is exactly 0.0 without a matched word.
C10_SentimentScoreRounded ==
    \A x \in reports :
        LET sent == x.report.sentiment_per_participant
            P    == Scanned(conversation.messages)
        IN  /\ DOMAIN sent = {P[k].sender : k \in 1..Len(P)}
            /\ \A s \in DOMAIN sent :
                  LET total == sent[s].positive + sent[s].negative
                  IN  /\ sent[s].sentiment_score >= -1000
                      /\ sent[s].sentiment_score <= 1000
                      /\ IF total = 0 THEN sent[s].sentiment_score = 0
                         ELSE IsRounded(sent[s].sentiment_score,
                                        1000 * (sent[s].positive - sent[s].negative), total)

\* a report with a sender of six positive words and one negative word, score
\* 0.714, a sender without a matched word, score 0.0, and a sender with a
\* negative word only, score -1.0
C10_Witness ==
    /\ reports # {}
    /\ LET sent == (CHOOSE x \in reports : TRUE).report.sentiment_per_participant
       IN  /\ DOMAIN sent = {SenderA, SenderB, SenderC}
           /\ sent[SenderC] = [positive |-> 6, negative |-> 1, sentiment_score |-> 714]
           /\ sent[SenderA] = [positive |-> 0, negative |-> 0, sentiment_score |-> 0]
           /\ sent[SenderB] = [positive |-> 0, negative |-> 1, sentiment_score |-> -1000]

\* ---------------------------------------------------------------------------
\* The claims on the relationship score, the rankings and the shares
\* ---------------------------------------------------------------------------

\* the number of content-bearing messages of participant p
SentBy(msgs, p) == Len(SelectSeq(Scanned(msgs), LAMBDA m : m.sender = p))

\* C11: in the report of a conversation with two participants the balance
\* component is 100 when both sent the same number of content-bearing
\* messages (50/50) and 0 when one of them sent all of them and the other
\* none (100/0).
C11_AsStated ==
    \A x \in reports :
        LET r == x.report
            n == [i \in 1..2 |-> SentBy(conversation.messages, r.participants[i])]
        IN  (Len(r.participants) = 2 /\ n[1] + n[2] > 0) =>
                /\ n[1] = n[2] => r.relationship_score.components.balance = 1000
                /\ (n[1] = 0 \/ n[2] = 0) => r.relationship_score.components.balance = 0

\* the averages, in hundredths of a minute, at which the responsiveness
\* function is compared with its right-hand neighbour: 0.0, 0.5, ... 70.0
ResponseGrid == {50 * k : k \in 0..140}

\* C12: the responsiveness component is a non-increasing piecewise-linear
\* function of the overall average response minutes: 100 up to 5 minutes, 0
\* from 60 minutes on, 100 * (1 - (avg - 5) / 55) in between (50 at 32.5),
\* reported rounded to one decimal, and 50 when the overall average is None.
C12_ResponsivenessPiecewiseLinear ==
    /\ \A h \in ResponseGrid :
          LET f == ResponsivenessScore(Some(h))
          IN  /\ QLeq(ResponsivenessScore(Some(h + 50)), f)
              /\ h <= 500 => f = QInt(1)
              /\ h >= 6000 => f = QInt(0)
              /\ (h > 500 /\ h < 6000) => f.num * 5500 = (6000 - h) * f.den
    /\ ResponsivenessScore(NoneNumber) = QNorm(1, 2)
    /\ \A x \in reports :
          LET r   == x.report
              avg == r.overall_average_response_time_minutes
          IN  r.relationship_score.components # <<>> =>
                 LET v == r.relationship_score.components.responsiveness
                 IN  /\ avg = NoneNumber => v = 500
                     /\ (avg # NoneNumber /\ avg[1] <= 500) => v = 1000
                     /\ (avg # NoneNumber /\ avg[1] >= 6000) => v = 0
                     /\ (avg # NoneNumber /\ avg[1] > 500 /\ avg[1] < 6000) =>
                           IsRounded(v, 1000 * (6000 - avg[1]), 5500)
                     /\ avg = Some(3250) => v = 500
                     /\ r.relationship_score.inputs.average_response_time_minutes = avg

\* a report whose overall average response lies strictly between 5 and 60
\* minutes and is not the midpoint, with a component strictly between 0 and 100
C12_Witness ==
    \E x \in reports :
        LET r == x.report
        IN  /\ r.overall_average_response_time_minutes \notin {NoneNumber, Some(3250)}
            /\ r.overall_average_response_time_minutes[1] > 500
            /\ r.overall_average_response_time_minutes[1] < 6000
            /\ r.relationship_score.components.responsiveness \in 1..999

\* the names of the five components of the relationship score
ComponentNames == {"balance", "engagement", "positive_emoji", "responsiveness", "sentiment"}

\* C13: the relationship score is the zero-valued default (score 0.0, empty
\* components, empty inputs) if and only if the conversation has no non-system
\* message with non-empty content, as in the empty conversation and in one of
\* system messages only; in every other case all five components are reported.
C13_ZeroDefaultIffNoContent ==
    \A x \in reports :
        LET rs == x.report.relationship_score
            P  == Scanned(conversation.messages)
        IN  /\ (P = <<>>) <=> (rs.score = 0 /\ rs.components = <<>> /\ rs.inputs = <<>>)
            /\ (P = <<>>) <=> (rs.components = <<>>)
            /\ P # <<>> => DOMAIN rs.components = ComponentNames
            /\ rs.scale = "0-100"

\* the report of a conversation that holds a system message with content and
\* an empty participant message, and no other message, is the default
C13_Witness ==
    /\ \E i \in 1..Len(conversation.messages) :
          conversation.messages[i].is_system /\ conversation.messages[i].content # <<>>
    /\ \E i \in 1..Len(conversation.messages) :
          ~conversation.messages[i].is_system /\ conversation.messages[i].content = <<>>
    /\ \E x \in reports :
          /\ x.report.relationship_score.score = 0
          /\ x.report.relationship_score.components = <<>>
          /\ x.report.relationship_score.inputs = <<>>
          /\ x.report.total_messages = 1

\* C14: compute_statistics never fails on a conversation whose system
\* messages have no sender: every call returns a report, and the degenerate
\* cases have their defaults.  Without content-bearing message all counts are
\* zero, the timestamps and both overall averages None and the relationship
\* score the default; without participant message the per-participant fields
\* are empty; with a single participant, or with no recorded delta, there is
\* no per-sender average and the overall average is None; a participant
\* without signal word has the counts 0 and the sentiment score 0.0.
C14_NeverFails ==
    LET kept == DropEmpty(conversation.messages)
        P    == Scanned(conversation.messages)
    IN  \A x \in reports :
            LET r == x.report
            IN  /\ "raised" \notin DOMAIN r
                /\ kept = <<>> =>
                      /\ r.total_messages = 0 /\ r.system_messages = 0
                      /\ r.first_message_at = NoneTime /\ r.last_message_at = NoneTime
                      /\ r.duration_days = 0
                /\ P = <<>> =>
                      /\ r.participant_messages = 0
                      /\ r.messages_per_participant = <<>> /\ r.participant_share = <<>>
                      /\ r.average_chars_per_message = <<>>
                      /\ r.average_words_per_message = <<>>
                      /\ r.top_words_per_participant = <<>> /\ r.emoji_counts = <<>>
                      /\ r.hourly_distribution = <<>> /\ r.weekday_distribution = <<>>
                      /\ r.messages_per_day = <<>>
                      /\ r.active_days_with_messages = 0
                      /\ r.average_messages_per_active_day = 0
                      /\ r.positive_emoji_ratio = 0
                      /\ r.average_response_time_minutes = <<>>
                      /\ r.overall_average_response_time_minutes = NoneNumber
                      /\ r.sentiment_per_participant = <<>>
                      /\ r.overall_sentiment_score = NoneNumber
                      /\ r.relationship_score.score = 0
                /\ (Cardinality({P[k].sender : k \in 1..Len(P)}) = 1 \/ Recorded(P) = {}) =>
                      /\ r.average_response_time_minutes = <<>>
                      /\ r.overall_average_response_time_minutes = NoneNumber
                /\ \A s \in {P[k].sender : k \in 1..Len(P)} :
                      /\ s \in DOMAIN r.sentiment_per_participant
                      /\ r.sentiment_per_participant[s].positive
                            + r.sentiment_per_participant[s].negative = 0
                         => r.sentiment_per_participant[s].sentiment_score = 0
                      /\ r.average_chars_per_message[s].den > 0
                      /\ r.average_words_per_message[s].den > 0
                      /\ r.participant_share[s].den > 0

\* a report of the empty conversation and nothing raised
C14_Witness ==
    /\ conversation.messages = <<>>
    /\ \E x \in reports :
          /\ "raised" \notin DOMAIN x.report
          /\ x.report.total_messages = 0
          /\ x.report.overall_average_response_time_minutes = NoneNumber
          /\ x.report.overall_sentiment_score = NoneNumber

RanksBefore(C, i, j) == C[i][2] > C[j][2] \/ (C[i][2] = C[j][2] /\ i < j)

\* the position in the counter C of its entry e
PositionIn(C, e) == CHOOSE i \in 1..Len(C) : C[i] = e

\* L holds the n first-ranked entries of the counter C, in rank order
IsTop(L, C, n) ==
    /\ Len(L) = IF Len(C) < n THEN Len(C) ELSE n
    /\ \A k \in 1..Len(L) : \E i \in 1..Len(C) : C[i] = L[k]
    /\ \A k \in 1..(Len(L) - 1) :
          /\ L[k][2] >= L[k + 1][2]
          /\ RanksBefore(C, PositionIn(C, L[k]), PositionIn(C, L[k + 1]))
    /\ \A i \in 1..Len(C) :
          (\A k \in 1..Len(L) : L[k] # C[i]) =>
              \A k \in 1..Len(L) : RanksBefore(C, PositionIn(C, L[k]), i)

\* C18: top_words_per_participant lists at most 10 (word, count) pairs per
\* participant and emoji_counts at most 15 pairs, the highest counts in
\* non-increasing order; among equal counts the entry counted first in the
\* message sequence comes first, and at the cut-off the earlier ones are kept.
C18_TopListsStable ==
    LET P == Scanned(conversation.messages)
    IN  \A x \in reports :
            LET r == x.report
            IN  /\ Len(r.emoji_counts) <= 15
                /\ IsTop(r.emoji_counts, CountEmojis(P), 15)
                /\ DOMAIN r.top_words_per_participant = {P[k].sender : k \in 1..Len(P)}
                /\ \A s \in DOMAIN r.top_words_per_participant :
                      /\ Len(r.top_words_per_participant[s]) <= 10
                      /\ IsTop(r.top_words_per_participant[s],
                               CountWords(SelectSeq(P, LAMBDA m : m.sender = s)), 10)

\* a participant with eleven words counted once each, the eleventh left out,
\* and sixteen emojis counted once each, the sixteenth left out
C18_Witness ==
    LET P == Scanned(conversation.messages)
    IN  \E x \in reports :
            LET r == x.report
                C == CountWords(SelectSeq(P, LAMBDA m : m.sender = SenderA))
                E == CountEmojis(P)
            IN  /\ SenderA \in DOMAIN r.top_words_per_participant
                /\ Len(C) = 11 /\ \A i \in 1..11 : C[i][2] = 1
                /\ r.top_words_per_participant[SenderA] = SubSeq(C, 1, 10)
                /\ Len(E) = 16 /\ \A i \in 1..16 : E[i][2] = 1
                /\ r.emoji_counts = SubSeq(E, 1, 15)

\* 0 <= q <= 1
InUnitRange(q) == QLeq(QInt(0), q) /\ QLeq(q, QInt(1))

\* C19: with at least one content-bearing participant message the score is
\* round(100 * (0.30 balance + 0.25 engagement + 0.20 positive_emoji
\* + 0.15 responsiveness + 0.10 sentiment), 1), every sub-score lying in
\* [0, 1] and reported times 100 rounded to one decimal; in every report the
\* score and the components lie in 0..100.
C19_WeightedScore ==
    LET P == Scanned(conversation.messages)
    IN  \A x \in reports :
            LET r  == x.report
                rs == r.relationship_score
                b  == BalanceScore(r.participant_share)
                e  == EngagementScore(P, r.active_days_with_messages)
                p  == PositiveEmojiScore(CountEmojis(P))
                t  == ResponsivenessScore(r.overall_average_response_time_minutes)
                s  == SentimentComponent(r.overall_sentiment_score)
                w  == QAdd(QAdd(QAdd(QAdd(QMul(QInt(30), b), QMul(QInt(25), e)),
                                     QMul(QInt(20), p)),
                                QMul(QInt(15), t)),
                           QMul(QInt(10), s))
            IN  /\ rs.score \in 0..1000
                /\ \A c \in DOMAIN rs.components : rs.components[c] \in 0..1000
                /\ P # <<>> =>
                      /\ InUnitRange(b) /\ InUnitRange(e) /\ InUnitRange(p)
                      /\ InUnitRange(t) /\ InUnitRange(s)
                      /\ IsRounded(rs.score, 10 * w.num, w.den)
                      /\ IsRounded(rs.components.balance, 1000 * b.num, b.den)
                      /\ IsRounded(rs.components.engagement, 1000 * e.num, e.den)
                      /\ IsRounded(rs.components.positive_emoji, 1000 * p.num, p.den)
                      /\ IsRounded(rs.components.responsiveness, 1000 * t.num, t.den)
                      /\ IsRounded(rs.components.sentiment, 1000 * s.num, s.den)

\* a report whose balance, engagement, positive-emoji and responsiveness
\* components all lie strictly between 0 and 100
C19_Witness ==
    \E x \in reports :
        LET rs == x.report.relationship_score
        IN  /\ rs.components # <<>>
            /\ rs.components.balance \in 1..999
            /\ rs.components.engagement \in 1..999
            /\ rs.components.positive_emoji \in 1..999
            /\ rs.components.responsiveness \in 1..999
            /\ rs.score \in 1..999

\* the sum of the shares of the senders of S
RECURSIVE SumShares(_, _)
SumShares(share, S) ==
    IF S = {} THEN QInt(0)
    ELSE LET s == CHOOSE s \in S : TRUE IN QAdd(share[s], SumShares(share, S \ {s}))

\* C20: participant_share of a sender is the percentage of the participants'
\* (non-system) content-bearing messages sent by that sender, and the shares
\* sum to 100 whenever there is such a message, system messages or not.
C20_AsStated ==
    LET P == Scanned(conversation.messages)
    IN  \A x \in reports :
            LET share == x.report.participant_share
            IN  P # <<>> =>
                   /\ \A s \in DOMAIN share :
                         share[s].num * Len(P) =
                            100 * SentBy(conversation.messages, s) * share[s].den
                   /\ SumShares(share, DOMAIN share) = QInt(100)

====
